---- MODULE Spec2Model ----
(***************************************************************************)
(* Model of the Sprite Toolkit (src/main.py).                              *)
(*                                                                         *)
(* The batch extraction engine (class SplitterWorker): one extraction job, *)
(* run on a worker thread, with the stop() request of the GUI thread, the  *)
(* pool tasks of the parallel path, the files written and the signals      *)
(* emitted.                                                                *)
(*                                                                         *)
(* The handlers of the three tabs that the engine does not run: start_split*)
(* of the splitter tab, infer_frame_dimensions, extract_frames and         *)
(* export_gif of the sheet-to-GIF tab, generate_frames, export_gif and     *)
(* export_spritesheet of the coin animator. A handler runs on the GUI      *)
(* thread from its first line to its last, so each one is one action.      *)
(***************************************************************************)
EXTENDS Integers, Sequences, FiniteSets, TLC

VARIABLES
    spritesheet,    \* self.spritesheet: [w, h, blank], blank = fully transparent pixels
    frame_w,        \* self.frame_w
    frame_h,        \* self.frame_h
    start,          \* self.start
    faulty,         \* environment: the cells whose crop or save raises
    cpu_count,      \* environment: multiprocessing.cpu_count()
    tab,            \* the tab whose fields and handlers are followed: "coin",
                    \* "sheet" or "splitter"
    should_stop,    \* self._should_stop
    pc,             \* position of run()
    dir_created,    \* how many times run() created the output directory
    built,          \* len(tasks) in the parallel path
    count,          \* count (sequential path, and the value passed to finished)
    frame_num,      \* frame_num (sequential path)
    completed,      \* completed (parallel path)
    saved,          \* saved (parallel path)
    next_task,      \* pool: index of the first task no worker has taken yet
    taken,          \* pool: tasks a pool thread has taken from the queue, whose
                    \* save_frame has not yet read the stop flag
    running,        \* pool: tasks past their stop check whose save is in flight
    pool_cancelled, \* pool: shutdown(cancel_futures=True) emptied the queue
    max_workers,    \* max_workers of the pool (0: no pool yet)
    files,          \* output directory: <<cell, num>> for each file written, the
                    \* frame of grid cell number cell saved under frame number num
    progress_n,     \* number of progress signals emitted
    progress_last,  \* value of the last progress signal (-1: none)
    signals,        \* the finished and error signals emitted, in order
    stop_when,      \* when stop() was first called: "never", "before" the first
                    \* cell, "during" (0 < k < total cells processed) or "after"
    image,          \* the tab's source image (self.image, self.spritesheet or what
                    \* Image.open gives): [w, h, blank], or NoImage
    spritesheet_path, \* self.spritesheet_path of the splitter tab
    frame_width,    \* self.frame_width of the tab
    frame_height,   \* self.frame_height of the tab
    prefix,         \* text of prefix_edit, a sequence of characters
    output_dir,     \* the directory named by output_path_edit, on disk
    message,        \* text the last handler showed, in a dialog or in the info
                    \* label of the tab ("": none)
    worker_thread,  \* self.worker_thread: "none" or "started"
    total_frames,   \* self.total_frames of the coin animator
    frames,         \* self.frames of the tab, a sequence of [w, h, ...]
    ms_per_frame,   \* self.ms_per_frame, the fraction [num, den] of a millisecond
    encoded,        \* arguments of the save call of the last export handler
                    \* (NoSave: it did not call save)
    out_file,       \* the file at the path chosen for the export, on disk
    split_btn,      \* the split button of the splitter tab is enabled
    jobs,           \* jobs that start_split has started so far
    cleanups_due,   \* jobs started whose thread has not yet had its
                    \* cleanup_worker run on the GUI thread
    source_closed,  \* the image the worker was constructed with has been closed
    gui             \* where the GUI thread is: "idle" in the event loop, inside
                    \* the message box of a failure whose handler has more to
                    \* do ("failed_start", "failed_generate"), or "closed"
                    \* after closeEvent has called cleanup

\* tabVars: what the tabs own. jobVars: what run() and stop() of the worker
\* never write, the job's parameters, the environment and the tabs' state.
splitVars == <<split_btn, cleanups_due, jobs, source_closed, gui>>
tabVars == <<image, spritesheet_path, frame_width, frame_height, prefix, output_dir,
             message, worker_thread, total_frames, frames, ms_per_frame, encoded,
             out_file, splitVars>>
jobVars == <<spritesheet, frame_w, frame_h, start, faulty, cpu_count, tab, tabVars>>
seqVars == <<count, frame_num>>
parVars == <<built, completed, saved>>
poolVars == <<max_workers, next_task, taken, running, pool_cancelled>>
outVars == <<progress_n, progress_last, signals>>
vars == <<jobVars, should_stop, pc, dir_created, seqVars, parVars, poolVars,
          files, outVars, stop_when>>
\* what belongs to the worker; the handlers of the tabs other than start_split
\* never write it
workerVars == <<spritesheet, frame_w, frame_h, start, faulty, cpu_count, tab, should_stop,
                pc, dir_created, seqVars, parVars, poolVars, files, outVars,
                stop_when>>

(***************************************************************************)
(* Bounds of the inputs.                                                   *)
(***************************************************************************)
SmallW == 3         \* width in pixels of the small sheets
SmallH == 2         \* height in pixels of the small sheets
MaxFrameW == 4      \* frame widths 1..MaxFrameW
MaxFrameH == 3      \* frame heights 1..MaxFrameH
MaxStart == 1       \* start indices 0..MaxStart
MaxFaulty == 1      \* faulty cells are among cells 0..MaxFaulty
MaxCpu == 9         \* cpu_count 1..MaxCpu where only the mode and the pool size matter

(***************************************************************************)
(* Program constants.                                                      *)
(***************************************************************************)
ParallelThreshold == 100    \* if total > 100
MaxPool == 16               \* min(cpu_count * 2, 16)
MantBits == 53              \* significand of a Python float (IEEE-754 double)
AlphaCut == 10              \* p[3] > 10

MsgTooLarge == "Frame dimensions are larger than spritesheet size"
MsgCancelled == "Operation cancelled"
MsgMkdir == "mkdir failed"
MsgException == "crop or save failed"

(***************************************************************************)
(* Python float arithmetic of int((k / total) * 100): the quotient and the *)
(* product are each rounded to 53 significant bits, to nearest, ties to    *)
(* even; int() truncates. A float is <<bits (most significant first),      *)
(* number of fraction bits>>.                                              *)
(***************************************************************************)
RECURSIVE Shift(_, _)
Shift(k, n) == IF k >= n THEN 0 ELSE 1 + Shift(2 * k, n)

RECURSIVE DivBits(_, _, _)
DivBits(r, n, cnt) ==
    IF cnt = 0 THEN <<>>
    ELSE LET b == IF r >= n THEN 1 ELSE 0
         IN <<b>> \o DivBits(2 * (r - b * n), n, cnt - 1)

RECURSIVE DivRem(_, _, _)
DivRem(r, n, cnt) ==
    IF cnt = 0 THEN r
    ELSE LET b == IF r >= n THEN 1 ELSE 0
         IN DivRem(2 * (r - b * n), n, cnt - 1)

RECURSIVE Inc(_)
Inc(b) ==
    IF b = <<>> THEN <<1>>
    ELSE IF b[Len(b)] = 0 THEN SubSeq(b, 1, Len(b) - 1) \o <<1>>
    ELSE Inc(SubSeq(b, 1, Len(b) - 1)) \o <<0>>

RoundEven(bits, g, sticky) ==
    IF g = 1 /\ (sticky \/ bits[Len(bits)] = 1) THEN Inc(bits) ELSE bits

RECURSIVE NatBits(_)
NatBits(v) == IF v = 0 THEN <<>> ELSE NatBits(v \div 2) \o <<v % 2>>

RECURSIVE BitsNat(_)
BitsNat(b) ==
    IF b = <<>> THEN 0 ELSE 2 * BitsNat(SubSeq(b, 1, Len(b) - 1)) + b[Len(b)]

RECURSIVE MulSmall(_, _, _)
MulSmall(b, m, carry) ==
    IF b = <<>> THEN NatBits(carry)
    ELSE LET t == b[Len(b)] * m + carry
         IN IF t % 2 = 0
            THEN MulSmall(SubSeq(b, 1, Len(b) - 1), m, t \div 2) \o <<0>>
            ELSE MulSmall(SubSeq(b, 1, Len(b) - 1), m, t \div 2) \o <<1>>

\* k / n for integers 0 < k <= n (true division, correctly rounded)
FloatDiv(k, n) ==
    LET s == Shift(k, n)
        r0 == k * (2 ^ s)
        bits == DivBits(r0, n, MantBits)
        r == DivRem(r0, n, MantBits)
        g == IF r >= n THEN 1 ELSE 0
        sticky == (r - g * n) # 0
    IN <<RoundEven(bits, g, sticky), MantBits - 1 + s>>

\* f * m for a float f and a small integer m
FloatMul(f, m) ==
    LET p == MulSmall(f[1], m, 0)
        d == Len(p) - MantBits
    IN IF d <= 0 THEN <<p, f[2]>>
       ELSE <<RoundEven(SubSeq(p, 1, MantBits), p[MantBits + 1],
                        \E j \in (MantBits + 2)..Len(p) : p[j] = 1), f[2] - d>>

\* int(f) for a float f >= 0
FloatTrunc(f) ==
    IF Len(f[1]) <= f[2] THEN 0 ELSE BitsNat(SubSeq(f[1], 1, Len(f[1]) - f[2]))

\* int((k / total) * 100)
FloatPct(k, total) == FloatTrunc(FloatMul(FloatDiv(k, total), 100))

\* the float 0.01: 0x147AE147AE147B / 2^59
OnePercent ==
    <<<<1, 0, 1, 0, 0, 0, 1, 1, 1, 1, 0, 1, 0, 1, 1, 1, 0, 0,
        0, 0, 1, 0, 1, 0, 0, 0, 1, 1, 1, 1, 0, 1, 0, 1, 1, 1,
        0, 0, 0, 0, 1, 0, 1, 0, 0, 0, 1, 1, 1, 1, 0, 1, 1>>, 59>>

\* n < f for an integer n >= 0 and a float f >= 0
LessThanFloat(n, f) ==
    \/ n < FloatTrunc(f)
    \/ /\ n = FloatTrunc(f)
       /\ \E j \in 1..Len(f[1]) : j > Len(f[1]) - f[2] /\ f[1][j] = 1

\* total_pixels * 0.01, tabulated for the cells of up to MaxCellPixels pixels
MaxCellPixels == 288
OnePercentOf == [t \in 1..MaxCellPixels |-> FloatMul(OnePercent, t)]

(***************************************************************************)
(* The grid of a sheet and the emptiness of a cell.                        *)
(***************************************************************************)
\* mutant: the partial cell at the right edge counts as a column
FramesXCeil(sheet, fw) == (sheet.w + fw - 1) \div fw

FramesX(sheet, fw) == sheet.w \div fw
FramesY(sheet, fh) == sheet.h \div fh
Total(sheet, fw, fh) == FramesX(sheet, fw) * FramesY(sheet, fh)

\* the crop box (left, top, right, bottom) of the cell at (row, col)
CropBox(row, col, fw, fh) ==
    [left |-> col * fw, top |-> row * fh,
     right |-> col * fw + fw, bottom |-> row * fh + fh]

\* alpha of a pixel of the sheet: 0 for a transparent pixel, 10 and 11 for
\* the faint and the dim pixels of a sheet that has some, 255 for the others
Alpha(sheet, x, y) ==
    IF <<x, y>> \in sheet.blank THEN 0
    ELSE IF "faint" \in DOMAIN sheet /\ <<x, y>> \in sheet.faint THEN 10
    ELSE IF "dim" \in DOMAIN sheet /\ <<x, y>> \in sheet.dim THEN 11
    ELSE 255

\* mutant: the pixels at the cut count as non-transparent (p[3] >= 10)
IsFrameEmptyCutIncluded(sheet, box) ==
    LET pixels == (box.left..(box.right - 1)) \X (box.top..(box.bottom - 1))
        non_transparent == {p \in pixels : Alpha(sheet, p[1], p[2]) >= AlphaCut}
        total_pixels == (box.right - box.left) * (box.bottom - box.top)
    IN \/ \A p \in pixels : Alpha(sheet, p[1], p[2]) = 0
       \/ Cardinality(non_transparent) = 0
       \/ LessThanFloat(Cardinality(non_transparent), OnePercentOf[total_pixels])

\* is_frame_empty of the frame cropped at box
IsFrameEmpty(sheet, box) ==
    LET pixels == (box.left..(box.right - 1)) \X (box.top..(box.bottom - 1))
        non_transparent == {p \in pixels : Alpha(sheet, p[1], p[2]) > AlphaCut}
        total_pixels == (box.right - box.left) * (box.bottom - box.top)
    IN \/ \A p \in pixels : Alpha(sheet, p[1], p[2]) = 0
       \/ Cardinality(non_transparent) = 0
       \/ LessThanFloat(Cardinality(non_transparent), OnePercentOf[total_pixels])

(***************************************************************************)
(* The jobs checked. Small sheets in every combination of frame size,      *)
(* start index, transparent pixels and faulty cells; two sheets of two     *)
(* rows around the parallel threshold (100 and 102 cells of one pixel).    *)
(* The machine has one CPU, so the pool of the parallel path has two       *)
(* workers.                                                                *)
(***************************************************************************)
FaultKinds == {"crop", "save"}
NoFault == [cells |-> {}, at |-> "save"]

SmallSheets ==
    {[w |-> SmallW, h |-> SmallH, blank |-> b] : b \in SUBSET {<<0, 0>>, <<1, 0>>}}
BigSheets ==
    {[w |-> ParallelThreshold \div 2 + d, h |-> 2, blank |-> {<<1, 0>>}] : d \in {0, 1}}

SmallJobs ==
    [sheet : SmallSheets, fw : 1..MaxFrameW, fh : 1..MaxFrameH, start : 0..MaxStart,
     faulty : {NoFault} \cup {[cells |-> c, at |-> k] :
                                c \in (SUBSET (0..MaxFaulty)) \ {{}}, k \in FaultKinds},
     cpu : {1}]
BigJobs ==
    {j \in [sheet : BigSheets, fw : 1..2, fh : {1}, start : {MaxStart},
            faulty : {NoFault, [cells |-> {MaxFaulty + 2}, at |-> "save"]},
            cpu : {1}] :
        Total(j.sheet, j.fw, j.fh) > ParallelThreshold => j.faulty # NoFault}
Jobs == SmallJobs \cup BigJobs

\* Jobs for the choice of the execution mode: 80, 100, 101 and 150 cells of one
\* pixel, fully opaque or with the last row of pixels transparent, on machines
\* of 1..MaxCpu CPUs.
ModeGrids == {<<40, 2>>, <<50, 2>>, <<101, 1>>, <<75, 2>>}
ModeSheets ==
    {[w |-> g[1], h |-> g[2], blank |-> b] :
        g \in ModeGrids, b \in {{}, (0..100) \X {1}}}
ModeJobs ==
    [sheet : ModeSheets, fw : {1}, fh : {1}, start : {0}, faulty : {NoFault},
     cpu : 1..MaxCpu]

\* The tabs after their constructors: no image, no path, 32 x 32 frames, prefix
\* "frame", 60 frames at 30 FPS, nothing exported. thread is self.worker_thread.
NoImage == [w |-> 0, h |-> 0, blank |-> {}]

\* image.close(): the same image, closed (a closed image stays referenced by
\* the tab that held it); IsClosed: operations on it raise
Closed(img) ==
    IF img = NoImage THEN NoImage
    ELSE [f \in DOMAIN img \cup {"closed"} |-> IF f = "closed" THEN TRUE ELSE img[f]]
IsClosed(img) == "closed" \in DOMAIN img /\ img.closed
NoSave == [called |-> FALSE]
DefaultFrame == 32          \* self.frame_width = 32, self.frame_height = 32
DefaultTotalFrames == 60    \* self.total_frames = 60
DefaultFps == 30            \* self.fps = 30
DefaultPrefix == <<"f", "r", "a", "m", "e">>
TabInit(thread) ==
    /\ image = NoImage
    /\ spritesheet_path = ""
    /\ frame_width = DefaultFrame
    /\ frame_height = DefaultFrame
    /\ prefix = DefaultPrefix
    /\ output_dir = "absent"
    /\ message = ""
    /\ worker_thread = thread
    /\ split_btn = (thread = "none")
    /\ cleanups_due = IF thread = "none" THEN 0 ELSE 1
    /\ jobs = IF thread = "none" THEN 0 ELSE 1
    /\ source_closed = FALSE
    /\ gui = "idle"
    /\ total_frames = DefaultTotalFrames
    /\ frames = <<>>
    /\ ms_per_frame = [num |-> 1000, den |-> DefaultFps]
    /\ encoded = NoSave
    /\ out_file = "none"

\* the state after SplitterWorker.__init__ for job j
InitJob(j) ==
    /\ spritesheet = j.sheet
    /\ frame_w = j.fw
    /\ frame_h = j.fh
    /\ start = j.start
    /\ faulty = j.faulty
    /\ cpu_count = j.cpu
    /\ tab = "splitter"
    /\ should_stop = FALSE
    /\ pc = "start"
    /\ dir_created = 0
    /\ built = 0
    /\ count = 0
    /\ frame_num = 0
    /\ completed = 0
    /\ saved = 0
    /\ max_workers = 0
    /\ next_task = 0
    /\ taken = {}
    /\ running = {}
    /\ pool_cancelled = FALSE
    /\ files = {}
    /\ progress_n = 0
    /\ progress_last = -1
    /\ signals = <<>>
    /\ stop_when = "never"

Init == TabInit("started") /\ \E j \in Jobs : InitJob(j)

InitMode == TabInit("started") /\ \E j \in ModeJobs : InitJob(j)

(***************************************************************************)
(* Locals of run() that depend on the job only.                            *)
(***************************************************************************)
frames_x == FramesX(spritesheet, frame_w)
frames_y == FramesY(spritesheet, frame_h)
total == frames_x * frames_y

\* the loop position (row, col) of the i-th iteration of
\* "for row in range(frames_y): for col in range(frames_x)"
RowOf(i) == i \div frames_x
ColOf(i) == i % frames_x

CellBox(i) == CropBox(RowOf(i), ColOf(i), frame_w, frame_h)
CellEmpty(i) == IsFrameEmpty(spritesheet, CellBox(i))
CropRaises(i) == source_closed \/ (faulty.at = "crop" /\ i \in faulty.cells)
SaveRaises(i) == faulty.at = "save" /\ i \in faulty.cells

\* mutant: the threshold itself already selects the pool
UseParallelAtThreshold(t) == t >= ParallelThreshold

\* if total > 100
UseParallel(t) == t > ParallelThreshold

\* max_workers = min(multiprocessing.cpu_count() * 2, 16)
MaxWorkers(cpu) == IF cpu * 2 < MaxPool THEN cpu * 2 ELSE MaxPool

\* mutant: the tasks are numbered column by column
TaskNumByColumn(row, col) == start + (col * frames_y + row)

\* num of the task built at (row, col) in the parallel path
TaskNum(row, col) == start + (row * frames_x + col)

\* num of the next saved frame in the sequential path
SeqNum(cnt) == start + cnt

\* str(num) of a num >= 0: its decimal digits
RECURSIVE Str(_)
Str(num) ==
    IF num < 10 THEN <<num>> ELSE Append(Str(num \div 10), num % 10)

\* mutant: the index is cut to its last pad digits
ZFillCut(digits, pad) ==
    IF Len(digits) >= pad THEN SubSeq(digits, Len(digits) - pad + 1, Len(digits))
    ELSE [i \in 1..(pad - Len(digits)) |-> 0] \o digits

\* str.zfill(pad): zeros on the left up to pad characters, nothing removed
ZFill(digits, pad) ==
    IF Len(digits) >= pad THEN digits
    ELSE [i \in 1..(pad - Len(digits)) |-> 0] \o digits

\* f"{self.prefix}_{str(num).zfill(self.pad)}.png"
Filename(pre, num, pad) == <<pre, "_", ZFill(Str(num), pad), ".png">>

\* the padding widths of the jobs: padding_spinbox.value() is in 1..10
MaxPad == 4
Pads == 1..MaxPad

\* progress_pct = int((k / total) * 100), tabulated for the totals of the jobs
Totals == {Total(j.sheet, j.fw, j.fh) : j \in Jobs \cup ModeJobs} \ {0}
ProgressTable == [t \in Totals |-> [k \in 1..t |-> FloatPct(k, t)]]
ProgressPct(k, t) == ProgressTable[t][k]

\* cells the main loop has examined so far
Processed == IF UseParallel(total) THEN completed ELSE frame_num

(***************************************************************************)
(* Signals.                                                                *)
(***************************************************************************)
Finished(cnt) == [sig |-> "finished", count |-> cnt, msg |-> ""]
Error(m) == [sig |-> "error", count |-> 0, msg |-> m]

EmitProgress(v) ==
    /\ progress_n' = progress_n + 1
    /\ progress_last' = v
    /\ UNCHANGED signals

Emit(s) ==
    /\ signals' = Append(signals, s)
    /\ UNCHANGED <<progress_n, progress_last>>

(***************************************************************************)
(* stop(), called from the GUI thread at any time. While the pool works    *)
(* the calls followed are those that come before more than MaxStopTask     *)
(* tasks have left the queue, and those that come when the queue is empty. *)
(***************************************************************************)
MaxStopTask == 6

Stop ==
    /\ max_workers > 0 => (next_task <= MaxStopTask \/ next_task = total)
    /\ should_stop' = TRUE
    /\ stop_when' = IF stop_when # "never" THEN stop_when
                     ELSE IF Processed = 0 THEN "before"
                     ELSE IF Processed < total THEN "during"
                     ELSE "after"
    /\ UNCHANGED <<jobVars, pc, dir_created, seqVars, parVars, poolVars, files, outVars>>

(***************************************************************************)
(* run(): the grid and the check of its size.                              *)
(***************************************************************************)
\* mutant: the output directory is created before the grid is checked
RunStartMkdirFirst ==
    /\ pc = "start"
    /\ dir_created' = dir_created + 1
    /\ IF total = 0
       THEN /\ Emit(Error(MsgTooLarge))
            /\ pc' = "done"
       ELSE /\ pc' = "mkdir"
            /\ UNCHANGED outVars
    /\ UNCHANGED <<jobVars, should_stop, seqVars, parVars, poolVars, files, stop_when>>

RunStart ==
    /\ pc = "start"
    /\ IF total = 0
       THEN /\ Emit(Error(MsgTooLarge))
            /\ pc' = "done"
       ELSE /\ pc' = "mkdir"
            /\ UNCHANGED outVars
    /\ UNCHANGED <<jobVars, should_stop, dir_created, seqVars, parVars, poolVars,
                   files, stop_when>>

\* mutant: a failure of mkdir is swallowed and the loops run without directory
MkdirFailureIgnored ==
    /\ pc = "mkdir"
    /\ \/ dir_created' = dir_created + 1
       \/ UNCHANGED dir_created
    /\ pc' = IF UseParallel(total) THEN "par_build" ELSE "seq_check"
    /\ UNCHANGED outVars
    /\ UNCHANGED <<jobVars, should_stop, seqVars, parVars, poolVars, files, stop_when>>

\* self.output_dir.mkdir(parents=True, exist_ok=True), which may raise
Mkdir ==
    /\ pc = "mkdir"
    /\ \/ /\ dir_created' = dir_created + 1
          /\ pc' = IF UseParallel(total) THEN "par_build" ELSE "seq_check"
          /\ UNCHANGED outVars
       \/ /\ Emit(Error(MsgMkdir))
          /\ pc' = "done"
          /\ UNCHANGED dir_created
    /\ UNCHANGED <<jobVars, should_stop, seqVars, parVars, poolVars, files, stop_when>>

(***************************************************************************)
(* run(), sequential path.                                                 *)
(***************************************************************************)
\* mutant: the cancellation is signalled but the loop goes on (no return)
SeqCheckNoReturn ==
    /\ pc = "seq_check"
    /\ IF should_stop
       THEN Emit(Error(MsgCancelled))
       ELSE UNCHANGED outVars
    /\ pc' = "seq_body"
    /\ UNCHANGED <<jobVars, should_stop, dir_created, seqVars, parVars, poolVars,
                   files, stop_when>>

\* the cancellation check at the head of an iteration
SeqCheck ==
    /\ pc = "seq_check"
    /\ IF should_stop
       THEN /\ Emit(Error(MsgCancelled))
            /\ pc' = "done"
       ELSE /\ pc' = "seq_body"
            /\ UNCHANGED outVars
    /\ UNCHANGED <<jobVars, should_stop, dir_created, seqVars, parVars, poolVars,
                   files, stop_when>>

\* mutant: an empty cell is skipped but still counted as saved
SeqBodyCountsEmpty ==
    /\ pc = "seq_body"
    /\ IF CropRaises(frame_num) \/ (~CellEmpty(frame_num) /\ SaveRaises(frame_num))
       THEN /\ Emit(Error(MsgException))
            /\ pc' = "done"
            /\ UNCHANGED <<seqVars, files>>
       ELSE /\ files' = IF CellEmpty(frame_num) THEN files
                        ELSE files \cup {<<frame_num, SeqNum(count)>>}
            /\ count' = count + 1
            /\ frame_num' = frame_num + 1
            /\ EmitProgress(ProgressPct(frame_num + 1, total))
            /\ pc' = IF frame_num + 1 = total THEN "finish" ELSE "seq_check"
    /\ UNCHANGED <<jobVars, should_stop, dir_created, parVars, poolVars, stop_when>>

\* crop, emptiness check, save and progress of one cell; an exception of
\* crop or save reaches the except clause of run()
SeqBody ==
    /\ pc = "seq_body"
    /\ IF CropRaises(frame_num) \/ (~CellEmpty(frame_num) /\ SaveRaises(frame_num))
       THEN /\ Emit(Error(MsgException))
            /\ pc' = "done"
            /\ UNCHANGED <<seqVars, files>>
       ELSE /\ IF CellEmpty(frame_num)
               THEN UNCHANGED <<count, files>>
               ELSE /\ files' = files \cup {<<frame_num, SeqNum(count)>>}
                    /\ count' = count + 1
            /\ frame_num' = frame_num + 1
            /\ EmitProgress(ProgressPct(frame_num + 1, total))
            /\ pc' = IF frame_num + 1 = total THEN "finish" ELSE "seq_check"
    /\ UNCHANGED <<jobVars, should_stop, dir_created, parVars, poolVars, stop_when>>

\* mutant: finished is emitted on the way out whatever was signalled before
FinishTwice ==
    /\ pc \in {"finish", "done"}
    /\ Len(signals) < 2
    /\ Emit(Finished(count))
    /\ pc' = "done"
    /\ UNCHANGED <<jobVars, should_stop, dir_created, seqVars, parVars, poolVars,
                   files, stop_when>>

\* self.finished.emit(count, str(self.output_dir))
Finish ==
    /\ pc = "finish"
    /\ Emit(Finished(count))
    /\ pc' = "done"
    /\ UNCHANGED <<jobVars, should_stop, dir_created, seqVars, parVars, poolVars,
                   files, stop_when>>

(***************************************************************************)
(* run(), parallel path.                                                   *)
(***************************************************************************)
\* one iteration of the loop that builds the task list
ParBuild ==
    /\ pc = "par_build"
    /\ IF should_stop
       THEN /\ Emit(Error(MsgCancelled))
            /\ pc' = "done"
            /\ UNCHANGED built
       ELSE /\ built' = built + 1
            /\ pc' = IF built + 1 = total THEN "par_submit" ELSE "par_build"
            /\ UNCHANGED outVars
    /\ UNCHANGED <<jobVars, should_stop, dir_created, seqVars, completed, saved,
                   poolVars, files, stop_when>>

\* the pool is created and executor.map submits every task
ParSubmit ==
    /\ pc = "par_submit"
    /\ max_workers' = MaxWorkers(cpu_count)
    /\ pc' = "par_wait"
    /\ UNCHANGED <<jobVars, should_stop, dir_created, seqVars, parVars, next_task,
                   taken, running, pool_cancelled, files, outVars, stop_when>>

\* the future of task i has its result
TaskDone(i) == i < next_task /\ i \notin taken /\ i \notin running

\* the value save_frame returned for a task i that passed its stop check (the
\* result of a task that returned at its stop check is never read: the flag
\* is never reset, and run() returns at its next check)
TaskResult(i) ==
    /\ ~CropRaises(i)
    /\ ~CellEmpty(i)
    /\ ~SaveRaises(i)

\* a free pool thread takes the next work item of the queue
\* (ThreadPoolExecutor._worker); save_frame of that task has not run yet
TaskStart ==
    /\ pc = "par_wait"
    /\ ~pool_cancelled
    /\ next_task < total
    /\ Cardinality(taken \cup running) < max_workers
    /\ next_task' = next_task + 1
    /\ taken' = taken \cup {next_task}
    /\ UNCHANGED <<jobVars, should_stop, pc, dir_created, seqVars, parVars,
                   max_workers, running, pool_cancelled, files, outVars, stop_when>>

\* "if self._should_stop: return False" of save_frame for the taken task i:
\* with the flag set the task is over, without it the task goes on
TaskCheck(i) ==
    /\ i \in taken
    /\ taken' = taken \ {i}
    /\ running' = IF should_stop THEN running ELSE running \cup {i}
    /\ UNCHANGED <<jobVars, should_stop, pc, dir_created, seqVars, parVars,
                   max_workers, next_task, pool_cancelled, files, outVars, stop_when>>

\* save_frame past its stop check: crop, emptiness check and save of task i
TaskFinish(i) ==
    /\ i \in running
    /\ running' = running \ {i}
    /\ files' = IF TaskResult(i)
                THEN files \cup {<<i, TaskNum(RowOf(i), ColOf(i))>>}
                ELSE files
    /\ UNCHANGED <<jobVars, should_stop, pc, dir_created, seqVars, parVars,
                   max_workers, next_task, taken, pool_cancelled, outVars, stop_when>>

\* mutant: the progress is computed from the frames saved so far
ParNextProgressOfSaved ==
    /\ pc = "par_wait"
    /\ TaskDone(completed)
    /\ IF should_stop
       THEN /\ pool_cancelled' = TRUE
            /\ Emit(Error(MsgCancelled))
            /\ pc' = "par_join"
            /\ UNCHANGED <<completed, saved>>
       ELSE /\ completed' = completed + 1
            /\ saved' = IF TaskResult(completed) THEN saved + 1 ELSE saved
            /\ EmitProgress(ProgressPct(saved', total))
            /\ pc' = IF completed + 1 = total THEN "par_close" ELSE "par_wait"
            /\ UNCHANGED pool_cancelled
    /\ UNCHANGED <<jobVars, should_stop, dir_created, seqVars, built,
                   max_workers, next_task, taken, running, files, stop_when>>

\* one iteration of "for result in executor.map(...)": the next result
\* arrives, the stop flag is checked, the result is counted and the progress
\* emitted
ParNext ==
    /\ pc = "par_wait"
    /\ TaskDone(completed)
    /\ IF should_stop
       THEN /\ pool_cancelled' = TRUE
            /\ Emit(Error(MsgCancelled))
            /\ pc' = "par_join"
            /\ UNCHANGED <<completed, saved>>
       ELSE /\ completed' = completed + 1
            /\ saved' = IF TaskResult(completed) THEN saved + 1 ELSE saved
            /\ EmitProgress(ProgressPct(completed + 1, total))
            /\ pc' = IF completed + 1 = total THEN "par_close" ELSE "par_wait"
            /\ UNCHANGED pool_cancelled
    /\ UNCHANGED <<jobVars, should_stop, dir_created, seqVars, built,
                   max_workers, next_task, taken, running, files, stop_when>>

\* the with block ends after the last result; count = saved
ParClose ==
    /\ pc = "par_close"
    /\ taken = {} /\ running = {}
    /\ count' = saved
    /\ pc' = "finish"
    /\ UNCHANGED <<jobVars, should_stop, dir_created, frame_num, parVars, poolVars,
                   files, outVars, stop_when>>

\* return inside the with block: the pool is joined, in-flight saves end
ParJoin ==
    /\ pc = "par_join"
    /\ taken = {} /\ running = {}
    /\ pc' = "done"
    /\ UNCHANGED <<jobVars, should_stop, dir_created, seqVars, parVars, poolVars,
                   files, outVars, stop_when>>

Next ==
    \/ Stop
    \/ RunStart
    \/ Mkdir
    \/ SeqCheck
    \/ SeqBody
    \/ Finish
    \/ ParBuild
    \/ ParSubmit
    \/ TaskStart
    \/ \E i \in taken : TaskCheck(i)
    \/ \E i \in running : TaskFinish(i)
    \/ ParNext
    \/ ParClose
    \/ ParJoin

Spec == Init /\ [][Next]_vars

(***************************************************************************)
(* The run up to the submission of the pool tasks: the choice of the mode, *)
(* the sequential path and the creation of the pool.                       *)
(***************************************************************************)
NextMode ==
    \/ Stop
    \/ RunStart
    \/ Mkdir
    \/ SeqCheck
    \/ SeqBody
    \/ Finish
    \/ ParBuild
    \/ ParSubmit

SpecMode == InitMode /\ [][NextMode]_vars

(***************************************************************************)
(* The run that stop() is never called on.                                 *)
(***************************************************************************)
NextRerun ==
    \/ RunStart
    \/ Mkdir
    \/ SeqCheck
    \/ SeqBody
    \/ Finish
    \/ ParBuild
    \/ ParSubmit
    \/ TaskStart
    \/ \E i \in taken : TaskCheck(i)
    \/ \E i \in running : TaskFinish(i)
    \/ ParNext
    \/ ParClose

SpecRerun == Init /\ [][NextRerun]_vars

\* The same run for a grid of 100 cells (sequential) and a grid of 102 cells
\* (parallel) with the same transparent cell, every crop and save succeeding.
EqualJobs ==
    [sheet : BigSheets, fw : {1}, fh : {1}, start : {MaxStart}, faulty : {NoFault},
     cpu : {1}]

InitEqual == TabInit("started") /\ \E j \in EqualJobs : InitJob(j)

SpecEqual == InitEqual /\ [][NextRerun]_vars

(***************************************************************************)
(* The splitter tab: start_split, which validates the parameters on the    *)
(* GUI thread, then constructs the worker and starts its thread.           *)
(***************************************************************************)
MsgSelect == "Please select a spritesheet file"
MsgPositive == "Frame dimensions must be positive"
MsgNoParent == "Invalid output path:\nParent directory does not exist"
MsgCannotCreate == "Invalid output path:\nCannot create output directory: mkdir failed"
MsgNotWritable == "Invalid output path:\nOutput directory is not writable"
MsgPrefix == "Filename prefix cannot be empty"
MsgFailedStart == "Failed to start splitting:\ncannot identify image file"

\* str.strip(): the text without its leading and trailing whitespace (the
\* characters of which str.isspace() is true: space, tab, line feed,
\* vertical tab, form feed, carriage return, the separators FS, GS, RS, US,
\* next line, and the space separators of Unicode)
Whitespace ==
    {" ", "\t", "\n", "\r", "\f", "VT", "FS", "GS", "RS", "US", "NEL", "NBSP",
     "OGHAM SPACE", "EN QUAD", "EM QUAD", "EN SPACE", "EM SPACE",
     "THREE-PER-EM SPACE", "FOUR-PER-EM SPACE", "SIX-PER-EM SPACE",
     "FIGURE SPACE", "PUNCTUATION SPACE", "THIN SPACE", "HAIR SPACE",
     "LINE SEPARATOR", "PARAGRAPH SEPARATOR", "NARROW NBSP", "MEDIUM MATH SPACE",
     "IDEOGRAPHIC SPACE"}
RECURSIVE LStrip(_)
LStrip(s) == IF s # <<>> /\ Head(s) \in Whitespace THEN LStrip(Tail(s)) ELSE s
RECURSIVE RStrip(_)
RStrip(s) ==
    IF s # <<>> /\ s[Len(s)] \in Whitespace THEN RStrip(SubSeq(s, 1, Len(s) - 1)) ELSE s
Strip(s) == RStrip(LStrip(s))

\* The output directory on disk: "no_parent" (its parent does not exist),
\* "blocked" (mkdir raises: the parent is read-only, or the path is a file),
\* "absent" (it does not exist, mkdir can create it), "present" (it exists and
\* is writable), "read_only" (it exists and is not writable), "created" (it
\* exists because validate_output_path created it).
DirStates == {"no_parent", "blocked", "absent", "present", "read_only"}

\* validate_output_path: (valid, error_msg), and dir, the directory afterwards
validate_output_path(d) ==
    IF d = "no_parent" THEN [valid |-> FALSE, error_msg |-> MsgNoParent, dir |-> d]
    ELSE IF d = "blocked" THEN [valid |-> FALSE, error_msg |-> MsgCannotCreate, dir |-> d]
    ELSE IF d = "read_only" THEN [valid |-> FALSE, error_msg |-> MsgNotWritable, dir |-> d]
    ELSE IF d = "absent" THEN [valid |-> TRUE, error_msg |-> "", dir |-> "created"]
    ELSE [valid |-> TRUE, error_msg |-> "", dir |-> d]

\* no worker: self.worker is None
NoWorker ==
    /\ spritesheet = NoImage
    /\ frame_w = 0
    /\ frame_h = 0
    /\ start = 0
    /\ should_stop = FALSE
    /\ pc = "none"
    /\ dir_created = 0
    /\ built = 0
    /\ count = 0
    /\ frame_num = 0
    /\ completed = 0
    /\ saved = 0
    /\ max_workers = 0
    /\ next_task = 0
    /\ taken = {}
    /\ running = {}
    /\ pool_cancelled = FALSE
    /\ files = {}
    /\ progress_n = 0
    /\ progress_last = -1
    /\ signals = <<>>
    /\ stop_when = "never"

Prefixes == {<<>>, <<" ">>, <<"\t">>, <<"f">>, <<" ", "f", " ">>, <<"\t", "f", "\n">>}

\* The splitter tab with its fields filled in by the user, no job started yet:
\* no file selected, a file Image.open can read ("sheet.png", in the cache) or
\* a file it cannot read ("bad.png").
InitStartSplit ==
    /\ NoWorker
    /\ faulty = NoFault
    /\ cpu_count = 1
    /\ tab = "splitter"
    /\ spritesheet_path \in {"", "sheet.png", "bad.png"}
    /\ image \in IF spritesheet_path = "sheet.png" THEN SmallSheets ELSE {NoImage}
    /\ frame_width \in 0..MaxFrameW
    /\ frame_height \in 0..MaxFrameH
    /\ prefix \in Prefixes
    /\ output_dir \in DirStates
    /\ message = ""
    /\ worker_thread = "none"
    /\ split_btn = TRUE
    /\ cleanups_due = 0
    /\ jobs = 0
    /\ source_closed = FALSE
    /\ gui = "idle"
    /\ total_frames = DefaultTotalFrames
    /\ frames = <<>>
    /\ ms_per_frame = [num |-> 1000, den |-> DefaultFps]
    /\ encoded = NoSave
    /\ out_file = "none"

\* a return of start_split after QMessageBox.critical(m), the directory left as d
Refuse(m, d) ==
    /\ message' = m
    /\ output_dir' = d
    /\ UNCHANGED <<image, spritesheet_path, frame_width, frame_height, prefix,
                   worker_thread, splitVars, total_frames, frames, ms_per_frame, encoded, out_file>>
    /\ UNCHANGED workerVars

\* what a file that Image.open can read may hold
ReadableSheets == {sheet \in SmallSheets : sheet.blank = {}}

\* load_spritesheet: the images it can return. The cached one; with an empty
\* cache the file is opened, which raises for "bad.png" (no image) and gives
\* what the file holds by then otherwise.
LoadSpritesheet ==
    IF image # NoImage THEN {image}
    ELSE IF spritesheet_path = "bad.png" THEN {}
    ELSE ReadableSheets

\* The worker and the thread start_split constructs, for the image sheet
\* that load_spritesheet returned and the output directory d: a new run; the
\* split button is disabled. The files of earlier jobs stay in the directory.
StartWorker(sheet, d) ==
    /\ image' = sheet
    /\ spritesheet' = sheet
    /\ frame_w' = frame_width
    /\ frame_h' = frame_height
    /\ \E s \in 0..MaxStart : start' = s
    /\ should_stop' = FALSE
    /\ pc' = "start"
    /\ dir_created' = 0
    /\ count' = 0 /\ frame_num' = 0
    /\ built' = 0 /\ completed' = 0 /\ saved' = 0
    /\ max_workers' = 0 /\ next_task' = 0 /\ taken' = {} /\ running' = {}
    /\ pool_cancelled' = FALSE
    /\ progress_n' = 0 /\ progress_last' = -1 /\ signals' = <<>>
    /\ stop_when' = "never"
    /\ worker_thread' = "started"
    /\ split_btn' = FALSE
    /\ cleanups_due' = cleanups_due + 1
    /\ jobs' = jobs + 1
    /\ source_closed' = FALSE
    /\ output_dir' = d
    /\ UNCHANGED <<spritesheet_path, frame_width, frame_height, prefix, gui,
                   message, total_frames, frames, ms_per_frame, encoded, out_file>>
    /\ UNCHANGED <<faulty, cpu_count, tab, files>>

\* the except clause of start_split, up to its message box: the box is
\* modal and runs an event loop, cleanup_worker() is called when it returns
FailedStart(d) ==
    /\ message' = MsgFailedStart
    /\ output_dir' = d
    /\ gui' = "failed_start"
    /\ UNCHANGED <<image, spritesheet_path, frame_width, frame_height, prefix,
                   worker_thread, split_btn, cleanups_due, jobs, source_closed,
                   total_frames, frames, ms_per_frame, encoded, out_file>>
    /\ UNCHANGED workerVars

\* the message box of the except clause of start_split is closed:
\* self.cleanup_worker()
FailedStartCleanup ==
    /\ gui = "failed_start"
    /\ gui' = "idle"
    /\ worker_thread' = "none"
    /\ UNCHANGED <<image, spritesheet_path, frame_width, frame_height, prefix,
                   output_dir, message, split_btn, cleanups_due, jobs, source_closed,
                   total_frames, frames, ms_per_frame, encoded, out_file>>
    /\ UNCHANGED workerVars

\* start_split is followed until MaxJobs jobs have been started
MaxJobs == 2

\* start_split, a click on the enabled split button. A spritesheet that
\* Image.open cannot read makes load_spritesheet raise inside the try block.
\* The variables of the worker hold one run: a click while the run of the
\* job before is still returning is not followed.
StartSplit ==
    /\ split_btn
    /\ pc \in {"none", "done"}
    /\ jobs < MaxJobs
    /\ gui = "idle"
    /\ LET v == validate_output_path(output_dir) IN
       IF spritesheet_path = "" THEN Refuse(MsgSelect, output_dir)
       ELSE IF frame_width <= 0 \/ frame_height <= 0 THEN Refuse(MsgPositive, output_dir)
       ELSE IF ~v.valid THEN Refuse(v.error_msg, v.dir)
       ELSE IF Strip(prefix) = <<>> THEN Refuse(MsgPrefix, v.dir)
       ELSE IF LoadSpritesheet = {} THEN FailedStart(v.dir)
       ELSE \E sheet \in LoadSpritesheet : StartWorker(sheet, v.dir)

NextStartSplit ==
    \/ StartSplit
    \/ FailedStartCleanup
    \/ RunStart
    \/ Mkdir
    \/ SeqCheck
    \/ SeqBody
    \/ Finish

SpecStartSplit == InitStartSplit /\ [][NextStartSplit]_vars

(***************************************************************************)
(* infer_frame_dimensions (the copy of SheetToGifTab and the copy of       *)
(* SpriteSheetSplitterTab are the same text).                              *)
(***************************************************************************)
common_sizes == <<8, 16, 24, 32, 48, 64, 96, 128, 192, 256, 384, 512>>
DefaultGuess == 32      \* best_w = 32, best_h = 32

\* reversed(seq)
Reversed(seq) == [i \in 1..Len(seq) |-> seq[Len(seq) + 1 - i]]

\* The first loop, from the i-th size of reversed(common_sizes) on: the guess
\* <<best_w, best_h>> it leaves.
RECURSIVE SquareGuess(_, _, _)
SquareGuess(width, height, i) ==
    IF i > Len(common_sizes) THEN <<DefaultGuess, DefaultGuess>>
    ELSE LET size == Reversed(common_sizes)[i] IN
         IF width % size = 0 /\ height % size = 0 THEN <<size, size>>
         ELSE IF width % size = 0 /\ height >= size /\ height % size = 0
              THEN <<size, size>>
              ELSE SquareGuess(width, height, i + 1)

\* the first size of reversed(common_sizes), from the i-th on, that divides n
\* (0: none does)
RECURSIVE FirstDividing(_, _)
FirstDividing(n, i) ==
    IF i > Len(common_sizes) THEN 0
    ELSE IF n % Reversed(common_sizes)[i] = 0 THEN Reversed(common_sizes)[i]
    ELSE FirstDividing(n, i + 1)

\* "if best_w == 32 and best_h == 32": the loops over w_size and h_size
RectGuess(width, height, best) ==
    IF best[1] = DefaultGuess /\ best[2] = DefaultGuess
    THEN LET w_size == FirstDividing(width, 1)
             h_size == FirstDividing(height, 1)
         IN IF w_size = 0 THEN best
            ELSE <<w_size, IF h_size = 0 THEN best[2] ELSE h_size>>
    ELSE best

\* mutant: only the width is checked against the image
SanityCheckWidthOnly(best, width, height) ==
    <<IF best[1] > width THEN width ELSE best[1], best[2]>>

\* "Sanity check - don't suggest frames larger than the image"
SanityCheck(best, width, height) ==
    <<IF best[1] > width THEN width ELSE best[1],
      IF best[2] > height THEN height ELSE best[2]>>

infer_frame_dimensions(width, height) ==
    SanityCheck(RectGuess(width, height, SquareGuess(width, height, 1)), width, height)

\* The sizes of the spritesheets loaded: every side of 1..MaxSide pixels, the
\* common sizes and some of their multiples.
MaxSide == 12
Sides == (1..MaxSide) \cup {common_sizes[i] : i \in 1..Len(common_sizes)}
              \cup {40, 80, 768}
SizedSheets == {[w |-> a, h |-> b, blank |-> {}] : a \in Sides, b \in Sides}

\* infer_frame_dimensions, tabulated for the sizes of the sheets loaded
InferTable ==
    [size \in (Sides \cup {SmallW}) \X (Sides \cup {SmallH}) |->
        infer_frame_dimensions(size[1], size[2])]
Inferred(sheet) == InferTable[<<sheet.w, sheet.h>>]

MsgLoaded == "Loaded"
MsgFailedLoadSheet == "Failed to load spritesheet:\ncannot identify image file"

\* SheetToGifTab.load_spritesheet, the dialog giving a path: the sheet held is
\* closed, then Image.open raises, which leaves the closed sheet and the
\* frames in place, or it gives an image of S: the frame size is inferred and
\* the frames extracted before are dropped.
LoadFrom(S) ==
    /\ gui = "idle"
    /\ \/ /\ image' = Closed(image)
          /\ message' = MsgFailedLoadSheet
          /\ UNCHANGED <<spritesheet_path, frame_width, frame_height, frames>>
       \/ \E sheet \in S :
           /\ image' = sheet
           /\ spritesheet_path' = "sheet.png"
           /\ frame_width' = Inferred(sheet)[1]
           /\ frame_height' = Inferred(sheet)[2]
           /\ frames' = <<>>
           /\ message' = MsgLoaded
    /\ UNCHANGED <<prefix, output_dir, worker_thread, splitVars, total_frames,
                   ms_per_frame, encoded, out_file>>
    /\ UNCHANGED workerVars

\* cleanup of CoinAnimatorTab and of SheetToGifTab (the same text), called by
\* closeEvent of the window: the image held is closed, the frames dropped
Cleanup ==
    /\ gui = "idle"
    /\ gui' = "closed"
    /\ image' = Closed(image)
    /\ frames' = <<>>
    /\ UNCHANGED <<spritesheet_path, frame_width, frame_height, prefix, output_dir,
                   message, worker_thread, split_btn, cleanups_due, jobs, source_closed,
                   total_frames, ms_per_frame, encoded, out_file>>
    /\ UNCHANGED workerVars

\* the first spritesheet loaded into the tab, of any of the sizes
LoadSized == image = NoImage /\ LoadFrom(SizedSheets)

\* the sheet-to-GIF tab after its constructor (12 FPS), no worker anywhere
SheetFps == 12      \* self.fps = 12
InitSheetTab ==
    /\ NoWorker
    /\ cpu_count = 1
    /\ tab = "sheet"
    /\ image = NoImage
    /\ spritesheet_path = ""
    /\ frame_width = DefaultFrame
    /\ frame_height = DefaultFrame
    /\ prefix = DefaultPrefix
    /\ output_dir = "absent"
    /\ message = ""
    /\ worker_thread = "none"
    /\ split_btn = TRUE
    /\ cleanups_due = 0
    /\ jobs = 0
    /\ source_closed = FALSE
    /\ gui = "idle"
    /\ total_frames = DefaultTotalFrames
    /\ frames = <<>>
    /\ ms_per_frame = [num |-> 1000, den |-> SheetFps]
    /\ encoded = NoSave
    /\ out_file = "none"

InitInfer == InitSheetTab /\ faulty = NoFault

NextInfer ==
    \/ LoadSized
    \/ Cleanup

SpecInfer == InitInfer /\ [][NextInfer]_vars

(***************************************************************************)
(* The splitter tab while a job runs: browse_spritesheet and clear_cache,  *)
(* the handlers of the worker's signals, cleanup_worker, and cleanup,      *)
(* which the window calls when it is closed. The handlers run on the GUI   *)
(* thread, one at a time, between the steps of run().                      *)
(***************************************************************************)
MsgPreview == "Spritesheet: preview"
MsgNoSheetLoaded == "No spritesheet loaded"
MsgPreviewError == "Error: preview failed"
MsgErrorLoading == "Error loading"
MsgSuccess == "Success!"
MsgError == "An error occurred"

\* SheetToGifTab.update_frame_width, on valueChanged of the width spin box
UpdateFrameWidth ==
    /\ gui = "idle"
    /\ \E value \in 1..MaxFrameW :
        /\ value # frame_width
        /\ frame_width' = value
    /\ UNCHANGED <<image, spritesheet_path, frame_height, prefix, output_dir,
                   message, worker_thread, splitVars, total_frames, frames, ms_per_frame,
                   encoded, out_file>>
    /\ UNCHANGED workerVars

\* SheetToGifTab.update_frame_height, on valueChanged of the height spin box
UpdateFrameHeight ==
    /\ gui = "idle"
    /\ \E value \in 1..MaxFrameH :
        /\ value # frame_height
        /\ frame_height' = value
    /\ UNCHANGED <<image, spritesheet_path, frame_width, prefix, output_dir,
                   message, worker_thread, splitVars, total_frames, frames, ms_per_frame,
                   encoded, out_file>>
    /\ UNCHANGED workerVars

\* SpriteSheetSplitterTab.update_frame_width and update_frame_height, on
\* valueChanged of the spin boxes of the splitter tab, which the user sets to
\* 1..MaxSpin here
MaxSpin == 2
SplitterUpdateFrameWidth ==
    /\ gui = "idle"
    /\ \E value \in 1..MaxSpin :
        /\ value # frame_width
        /\ frame_width' = value
    /\ UNCHANGED <<image, spritesheet_path, frame_height, prefix, output_dir,
                   message, worker_thread, splitVars, total_frames, frames, ms_per_frame,
                   encoded, out_file>>
    /\ UNCHANGED workerVars

SplitterUpdateFrameHeight ==
    /\ gui = "idle"
    /\ \E value \in 1..MaxSpin :
        /\ value # frame_height
        /\ frame_height' = value
    /\ UNCHANGED <<image, spritesheet_path, frame_width, prefix, output_dir,
                   message, worker_thread, splitVars, total_frames, frames, ms_per_frame,
                   encoded, out_file>>
    /\ UNCHANGED workerVars

\* the image in the cache is the one the worker was constructed with
WorkerHoldsCache == pc # "none" /\ ~source_closed /\ image # NoImage

\* clear_cache: the cached image is closed (the one the worker reads, if it
\* is that one) and forgotten
ClosedByClearCache == source_closed \/ WorkerHoldsCache

\* the files the dialog of browse_spritesheet offers
BrowseSheets == ReadableSheets \cup {NoImage}

\* browse_spritesheet: the dialog gives a path or nothing; the cache is
\* cleared, then load_spritesheet opens the file (NoImage: Image.open
\* raises) and the frame size is inferred from its size
BrowseSpritesheet ==
    /\ gui = "idle"
    /\ \/ UNCHANGED <<image, spritesheet_path, frame_width, frame_height, message,
                      source_closed>>
       \/ \E sheet \in BrowseSheets :
           /\ spritesheet_path' = IF sheet = NoImage THEN "bad.png" ELSE "sheet.png"
           /\ source_closed' = ClosedByClearCache
           /\ image' = sheet
           /\ IF sheet = NoImage
              THEN /\ message' = MsgErrorLoading
                   /\ UNCHANGED <<frame_width, frame_height>>
              ELSE /\ frame_width' = Inferred(sheet)[1]
                   /\ frame_height' = Inferred(sheet)[2]
                   /\ message' = MsgPreview
    /\ UNCHANGED <<prefix, output_dir, worker_thread, split_btn, cleanups_due, jobs, gui,
                   total_frames, frames, ms_per_frame, encoded, out_file>>
    /\ UNCHANGED workerVars

\* browse_output: the dialog (getExistingDirectory) gives a directory that
\* exists, writable or not, or nothing
BrowseDirs == {"present", "read_only"}
BrowseOutput ==
    /\ gui = "idle"
    /\ \E d \in BrowseDirs : d # output_dir /\ output_dir' = d
    /\ UNCHANGED <<image, spritesheet_path, frame_width, frame_height, prefix,
                   message, worker_thread, splitVars, total_frames, frames,
                   ms_per_frame, encoded, out_file>>
    /\ UNCHANGED workerVars

\* calculate_preview, the button "Calculate Preview": the grid of the sheet
\* that load_spritesheet returns; when that raises, or the division by the
\* frame size does, the error is shown and the cache cleared
CalculatePreview ==
    /\ gui = "idle"
    /\ IF spritesheet_path = ""
       THEN message' = MsgNoSheetLoaded /\ UNCHANGED <<image, source_closed>>
       ELSE IF LoadSpritesheet = {}
       THEN message' = MsgPreviewError /\ UNCHANGED <<image, source_closed>>
       ELSE \E sheet \in LoadSpritesheet :
            IF frame_width = 0 \/ frame_height = 0
            THEN /\ message' = MsgPreviewError
                 /\ image' = NoImage
                 /\ source_closed' = ClosedByClearCache
            ELSE /\ message' = MsgPreview
                 /\ image' = sheet
                 /\ UNCHANGED source_closed
    /\ UNCHANGED <<spritesheet_path, frame_width, frame_height, prefix, output_dir,
                   worker_thread, split_btn, cleanups_due, jobs, gui, total_frames,
                   frames, ms_per_frame, encoded, out_file>>
    /\ UNCHANGED workerVars

\* split_finished or split_error, delivered for the terminal signal of the
\* job: the split button is enabled again
SplitDone ==
    /\ gui # "closed"
    /\ ~split_btn
    /\ signals # <<>>
    /\ split_btn' = TRUE
    /\ message' = IF signals[1].sig = "finished" THEN MsgSuccess ELSE MsgError
    /\ UNCHANGED <<image, spritesheet_path, frame_width, frame_height, prefix,
                   output_dir, worker_thread, cleanups_due, jobs, source_closed, gui,
                   total_frames, frames, ms_per_frame, encoded, out_file>>
    /\ UNCHANGED workerVars

\* The thread of the oldest job not yet cleaned up has finished: the run of
\* that job has returned and the quit() queued behind split_finished or
\* split_error has been handled.
OldestThreadFinished ==
    \/ cleanups_due >= 2
    \/ cleanups_due = 1 /\ pc = "done" /\ split_btn

\* cleanup_worker, called for the finished signal of that thread: whatever
\* self.worker and self.worker_thread refer to is released
CleanupWorker ==
    /\ gui # "closed"
    /\ OldestThreadFinished
    /\ worker_thread' = "none"
    /\ cleanups_due' = cleanups_due - 1
    /\ UNCHANGED jobs
    /\ UNCHANGED <<image, spritesheet_path, frame_width, frame_height, prefix,
                   output_dir, message, split_btn, source_closed, gui, total_frames,
                   frames, ms_per_frame, encoded, out_file>>
    /\ UNCHANGED workerVars

\* cleanup, up to the wait: self.worker.stop() if there is a worker, quit()
\* and wait(2000), during which run() goes on
CleanupStop ==
    /\ gui = "idle"
    /\ gui' = "closed"
    /\ IF worker_thread = "started"
       THEN /\ should_stop' = TRUE
            /\ stop_when' = IF stop_when # "never" THEN stop_when
                             ELSE IF Processed = 0 THEN "before"
                             ELSE IF Processed < total THEN "during"
                             ELSE "after"
       ELSE UNCHANGED <<should_stop, stop_when>>
    /\ UNCHANGED <<image, spritesheet_path, frame_width, frame_height, prefix,
                   output_dir, message, worker_thread, split_btn, cleanups_due, jobs,
                   source_closed, total_frames, frames, ms_per_frame, encoded,
                   out_file>>
    /\ UNCHANGED <<spritesheet, frame_w, frame_h, start, faulty, cpu_count, tab, pc,
                   dir_created, seqVars, parVars, poolVars, files, outVars>>

\* cleanup, after the wait has returned (the thread has finished, or the
\* two seconds are over): clear_cache()
CleanupClear ==
    /\ gui = "closed"
    /\ image # NoImage
    /\ image' = NoImage
    /\ source_closed' = ClosedByClearCache
    /\ UNCHANGED <<spritesheet_path, frame_width, frame_height, prefix, output_dir,
                   message, worker_thread, split_btn, cleanups_due, jobs, gui, total_frames,
                   frames, ms_per_frame, encoded, out_file>>
    /\ UNCHANGED workerVars

\* The tab after browse_spritesheet has loaded a readable spritesheet and
\* inferred the frame size from it, its other fields filled in.
InitSplitter ==
    /\ InitStartSplit
    /\ image \in ReadableSheets
    /\ spritesheet_path = "sheet.png"
    /\ frame_width = Inferred(image)[1]
    /\ frame_height = Inferred(image)[2]
    /\ prefix = <<"f">>
    /\ output_dir = "present"

NextSplitter ==
    \/ StartSplit
    \/ FailedStartCleanup
    \/ BrowseSpritesheet
    \/ BrowseOutput
    \/ CalculatePreview
    \/ SplitterUpdateFrameWidth
    \/ SplitterUpdateFrameHeight
    \/ SplitDone
    \/ CleanupWorker
    \/ CleanupStop
    \/ CleanupClear
    \/ RunStart
    \/ Mkdir
    \/ SeqCheck
    \/ SeqBody
    \/ Finish

SpecSplitter == InitSplitter /\ [][NextSplitter]_vars

(***************************************************************************)
(* The grid extractor of the sheet-to-GIF tab: extract_frames, with its    *)
(* own copy of is_frame_empty.                                             *)
(***************************************************************************)
MsgNoSpritesheet == "Please load a spritesheet first!"
MsgLarger == "Frame dimensions are larger than spritesheet!"
MsgNoValid == "All extracted frames appear to be empty!\nTry adjusting frame dimensions."
MsgFailedExtract == "Failed to extract frames:\ncrop failed"
MsgExtracted == "Extracted"

\* SheetToGifTab.is_frame_empty of the frame cropped at box
TabIsFrameEmpty(sheet, box) ==
    LET pixels == (box.left..(box.right - 1)) \X (box.top..(box.bottom - 1))
        non_transparent == {p \in pixels : Alpha(sheet, p[1], p[2]) > AlphaCut}
        total_pixels == (box.right - box.left) * (box.bottom - box.top)
    IN \/ \A p \in pixels : Alpha(sheet, p[1], p[2]) = 0
       \/ Cardinality(non_transparent) = 0
       \/ LessThanFloat(Cardinality(non_transparent), OnePercentOf[total_pixels])

\* The loop of extract_frames from the i-th cell on, acc being self.frames so
\* far: the frames at its end, and whether crop raised on the way. A frame is
\* the copy of the crop: the cell it was cut from, its box and its size.
RECURSIVE Extracted(_, _)
Extracted(i, acc) ==
    LET cols == FramesX(image, frame_width)
        box == CropBox(i \div cols, i % cols, frame_width, frame_height)
    IN IF i = Total(image, frame_width, frame_height)
       THEN [frames |-> acc, raised |-> FALSE]
       ELSE IF IsClosed(image) \/ CropRaises(i) THEN [frames |-> acc, raised |-> TRUE]
       ELSE IF TabIsFrameEmpty(image, box) THEN Extracted(i + 1, acc)
       ELSE Extracted(i + 1, Append(acc, [cell |-> i, box |-> box,
                                          w |-> box.right - box.left,
                                          h |-> box.bottom - box.top]))

\* extract_frames
ExtractFrames ==
    /\ gui = "idle"
    /\ IF image = NoImage
       THEN message' = MsgNoSpritesheet /\ UNCHANGED frames
       ELSE IF Total(image, frame_width, frame_height) = 0
       THEN message' = MsgLarger /\ UNCHANGED frames
       ELSE LET r == Extracted(0, <<>>) IN
            /\ frames' = r.frames
            /\ message' = IF r.raised THEN MsgFailedExtract
                           ELSE IF r.frames = <<>> THEN MsgNoValid
                           ELSE MsgExtracted
    /\ UNCHANGED <<image, spritesheet_path, frame_width, frame_height, prefix,
                   output_dir, worker_thread, splitVars, total_frames, ms_per_frame, encoded,
                   out_file>>
    /\ UNCHANGED workerVars

LoadSmall == LoadFrom(SmallSheets)

\* crop may raise at one cell of the grid
InitSheet ==
    /\ InitSheetTab
    /\ faulty \in {NoFault} \cup {[cells |-> {c}, at |-> "crop"] : c \in 0..MaxFaulty}

NextSheet ==
    \/ LoadSmall
    \/ UpdateFrameWidth
    \/ UpdateFrameHeight
    \/ ExtractFrames
    \/ Cleanup

SpecSheet == InitSheet /\ [][NextSheet]_vars

\* Sheets of large cells with a few pixels that are not fully transparent:
\* in row-major order s opaque pixels (alpha 255), then d dim ones (alpha 11),
\* then f faint ones (alpha 10), all the others transparent (alpha 0).
MaxMarked == 3
AlphaSizes == {<<10, 10>>, <<12, 12>>, <<24, 12>>, <<16, 8>>}
PixelAt(n, w) == <<n % w, n \div w>>
AlphaSheets ==
    {[w |-> z[1], h |-> z[2],
      blank |-> {PixelAt(n, z[1]) : n \in (s + d + f)..(z[1] * z[2] - 1)},
      dim |-> {PixelAt(n, z[1]) : n \in s..(s + d - 1)},
      faint |-> {PixelAt(n, z[1]) : n \in (s + d)..(s + d + f - 1)}] :
        z \in AlphaSizes, s \in 0..MaxMarked, d \in 0..1, f \in 0..1}

\* the first spritesheet loaded into the tab, one of these
LoadAlpha == image = NoImage /\ LoadFrom(AlphaSheets)

InitAlpha == InitSheetTab /\ faulty = NoFault

NextAlpha ==
    \/ LoadAlpha
    \/ ExtractFrames
    \/ Cleanup

SpecAlpha == InitAlpha /\ [][NextAlpha]_vars

(***************************************************************************)
(* The GIF encoder: export_gif (the copy of CoinAnimatorTab and the copy   *)
(* of SheetToGifTab compose and save in the same way), with update_fps and *)
(* update_ms, which set the time per frame.                                *)
(***************************************************************************)
MsgNoFrames == "Please load an image first!"
MsgExtractFirst == "Please extract frames first!"
MsgExported == "GIF exported successfully!"
MsgFailedGif == "Failed to export GIF:\nsave failed"

\* int(round(x)) of the fraction x = num / den: Python rounds to the nearest
\* integer and a tie to the even one. (The float of 1000.0 / fps or of a value
\* with two decimals is a tie exactly when the fraction is.)
IntRound(x) ==
    LET q == x.num \div x.den
        r == x.num % x.den
    IN IF 2 * r < x.den THEN q
       ELSE IF 2 * r > x.den THEN q + 1
       ELSE IF q % 2 = 0 THEN q ELSE q + 1

\* max(f.width for f in frames), max(f.height for f in frames)
MaxWidth(fs) == CHOOSE m \in {fs[k].w : k \in 1..Len(fs)} : \A k \in 1..Len(fs) : fs[k].w <= m
MaxHeight(fs) == CHOOSE m \in {fs[k].h : k \in 1..Len(fs)} : \A k \in 1..Len(fs) : fs[k].h <= m

\* mutant: the canvas takes the size of the first frame
CanvasOfFirst(fs) == <<fs[1].w, fs[1].h>>

\* the size of the canvas every frame is pasted on
Canvas(fs) == <<MaxWidth(fs), MaxHeight(fs)>>

\* (x_offset, y_offset) of a frame on a canvas
Offset(canvas, frame) == <<(canvas[1] - frame.w) \div 2, (canvas[2] - frame.h) \div 2>>

\* mutant: the time per frame is truncated
DurationTruncated(x) == x.num \div x.den

\* duration = int(round(self.ms_per_frame))
Duration(x) == IntRound(x)

\* export_frames[0].save(path, save_all=True, append_images=export_frames[1:],
\* duration=duration, loop=0, disposal=2, optimize=False)
GifSave(fs, x) ==
    [called |-> TRUE, format |-> "GIF", n |-> Len(fs),
     canvas |-> Canvas(fs),
     sizes |-> [k \in 1..Len(fs) |-> <<fs[k].w, fs[k].h>>],
     offsets |-> [k \in 1..Len(fs) |-> Offset(Canvas(fs), fs[k])],
     duration |-> Duration(x), loop |-> 0, disposal |-> 2]

\* What save(path) does to the file at path, which it opens for writing before
\* it encodes: "ok" (written in full), "open" (open raises: the file is as it
\* was), "write" (an error while the frames are encoded and written: a file
\* that existed is left truncated, a new one is left truncated or removed,
\* as the version of the imaging library has it).
SaveOutcomes == {"ok", "open", "write"}
FileAfter(file, outcome) ==
    IF outcome = "ok" THEN {"complete"}
    ELSE IF outcome = "open" THEN {file}
    ELSE IF file = "none" THEN {"none", "partial"}
    ELSE {"partial"}

\* the warning of export_gif when there are no frames: the text of the copy
\* of CoinAnimatorTab and the text of the copy of SheetToGifTab
NoFramesWarning == IF tab = "sheet" THEN MsgExtractFirst ELSE MsgNoFrames

\* export_gif. The dialog gives a path or nothing; composing the canvases may
\* raise before save is called.
ExportGif ==
    /\ IF frames = <<>>
       THEN message' = NoFramesWarning /\ encoded' = NoSave /\ UNCHANGED out_file
       ELSE \/ encoded' = NoSave /\ UNCHANGED <<message, out_file>>
            \/ message' = MsgFailedGif /\ encoded' = NoSave /\ UNCHANGED out_file
            \/ \E outcome \in SaveOutcomes :
                /\ encoded' = GifSave(frames, ms_per_frame)
                /\ out_file' \in FileAfter(out_file, outcome)
                /\ message' = IF outcome = "ok" THEN MsgExported ELSE MsgFailedGif
    /\ UNCHANGED <<image, spritesheet_path, frame_width, frame_height, prefix,
                   output_dir, worker_thread, splitVars, total_frames, frames, ms_per_frame>>
    /\ UNCHANGED workerVars

\* setRange(1, 120) of fps_spinbox: the values tried
FpsValues == {16, 20}
\* setRange(8.33, 1000.0), two decimals, of ms_spinbox: the values tried, in
\* hundredths of a millisecond
MsValues == {833, 1350, 1667, 5000}

\* update_fps: self.ms_per_frame = 1000.0 / value
UpdateFps ==
    /\ \E value \in FpsValues : ms_per_frame' = [num |-> 1000, den |-> value]
    /\ UNCHANGED <<image, spritesheet_path, frame_width, frame_height, prefix,
                   output_dir, message, worker_thread, splitVars, total_frames, frames,
                   encoded, out_file>>
    /\ UNCHANGED workerVars

\* update_ms: self.ms_per_frame = value
UpdateMs ==
    /\ \E value \in MsValues : ms_per_frame' = [num |-> value, den |-> 100]
    /\ UNCHANGED <<image, spritesheet_path, frame_width, frame_height, prefix,
                   output_dir, message, worker_thread, splitVars, total_frames, frames,
                   encoded, out_file>>
    /\ UNCHANGED workerVars

\* The frame sequences exported: up to n frames of 100 x 100, 80 x 100,
\* 100 x 80 and 95 x 95 pixels.
ExampleSizes == {<<100, 100>>, <<80, 100>>, <<100, 80>>}
FrameSizes == ExampleSizes \cup {<<95, 95>>}
FrameSeqs(n) ==
    UNION {[1..m -> {[w |-> z[1], h |-> z[2]] : z \in FrameSizes}] : m \in 0..n}

MaxGifFrames == 3

\* the coin tab or the sheet-to-GIF tab holding a frame sequence, at the
\* frame rate of its constructor, the file of the export absent or there
InitWithFrames(n) ==
    /\ NoWorker
    /\ faulty = NoFault
    /\ cpu_count = 1
    /\ tab \in {"coin", "sheet"}
    /\ image = NoImage
    /\ spritesheet_path = ""
    /\ frame_width = DefaultFrame
    /\ frame_height = DefaultFrame
    /\ prefix = DefaultPrefix
    /\ output_dir = "absent"
    /\ message = ""
    /\ worker_thread = "none"
    /\ split_btn = TRUE
    /\ cleanups_due = 0
    /\ jobs = 0
    /\ source_closed = FALSE
    /\ gui = "idle"
    /\ total_frames = DefaultTotalFrames
    /\ frames \in FrameSeqs(n)
    /\ ms_per_frame = [num |-> 1000, den |-> IF tab = "coin" THEN DefaultFps ELSE SheetFps]
    /\ encoded = NoSave
    /\ out_file \in {"none", "old"}

InitGif == InitWithFrames(MaxGifFrames)

NextGif ==
    \/ UpdateFps
    \/ UpdateMs
    \/ ExportGif

SpecGif == InitGif /\ [][NextGif]_vars

(***************************************************************************)
(* CoinAnimatorTab.export_spritesheet: the frames packed on one sheet.     *)
(***************************************************************************)
MsgSheetExported == "Spritesheet exported successfully!"
MsgFailedSheet == "Failed to export spritesheet"

\* int(np.ceil(np.sqrt(n))): the square root of a square is exact and the
\* root of any other n of this size is not a whole number, so its ceiling is
\* the least c with c * c >= n
CeilSqrt(n) == CHOOSE c \in 0..n : c * c >= n /\ \A d \in 0..(c - 1) : d * d < n

SheetCols(n) == CeilSqrt(n)

\* n // cols (mutant)
SheetRowsFloor(n, cols) == n \div cols

\* int(np.ceil(num_frames / cols))
SheetRows(n, cols) == (n + cols - 1) \div cols

\* x_pos = col * max_w + x_offset, y_pos = row * max_h + y_offset of frame i
\* (from 0), row = i // cols and col = i % cols
SheetPos(i, frame, cols, cell) ==
    <<(i % cols) * cell[1] + Offset(cell, frame)[1],
      (i \div cols) * cell[2] + Offset(cell, frame)[2]>>

\* the sheet handed to sheet.save(path): its size, and each frame where it
\* was pasted
SheetSave(fs) ==
    LET n == Len(fs)
        cols == SheetCols(n)
        rows == SheetRows(n, cols)
        cell == <<MaxWidth(fs), MaxHeight(fs)>>
    IN  [called |-> TRUE, format |-> "PNG", n |-> n,
         cols |-> cols, rows |-> rows, cell |-> cell,
         size |-> <<cell[1] * cols, cell[2] * rows>>,
         sizes |-> [k \in 1..n |-> <<fs[k].w, fs[k].h>>],
         positions |-> [k \in 1..n |-> SheetPos(k - 1, fs[k], cols, cell)]]

\* export_spritesheet. The dialog gives a path or nothing; building the sheet
\* may raise before save is called.
ExportSpritesheet ==
    /\ IF frames = <<>>
       THEN message' = MsgNoFrames /\ encoded' = NoSave /\ UNCHANGED out_file
       ELSE \/ encoded' = NoSave /\ UNCHANGED <<message, out_file>>
            \/ message' = MsgFailedSheet /\ encoded' = NoSave /\ UNCHANGED out_file
            \/ \E outcome \in SaveOutcomes :
                /\ encoded' = SheetSave(frames)
                /\ out_file' \in FileAfter(out_file, outcome)
                /\ message' = IF outcome = "ok" THEN MsgSheetExported
                                                ELSE MsgFailedSheet
    /\ UNCHANGED <<image, spritesheet_path, frame_width, frame_height, prefix,
                   output_dir, worker_thread, splitVars, total_frames, frames, ms_per_frame>>
    /\ UNCHANGED workerVars

MaxSheetFrames == 5

InitPack == InitWithFrames(MaxSheetFrames) /\ tab = "coin"

NextPack == ExportSpritesheet

SpecPack == InitPack /\ [][NextPack]_vars

(***************************************************************************)
(* CoinAnimatorTab: load_image, update_frame_count and generate_frames.    *)
(* The image of this tab is [w, h, closed]; a frame is [w, h, flip], flip  *)
(* for a frame mirrored by transpose(FLIP_LEFT_RIGHT).                     *)
(***************************************************************************)
MsgFailedLoad == "Failed to load image"
MsgFailedGenerate == "Failed to generate frames"

\* frame_slider.setRange(20, 180)
MinFrames == 20
MaxFrames == 180

\* the frame counts tried: some that put every frame at a whole number of
\* degrees and some that do not
FrameCounts == {20, 21, 24, 25, 50, 52, 60, 77, 90, 100, 104, 179, 180}

\* the unit of the cosines below
CosScale == 1000000000

\* np.cos(2 * np.pi * i / n) in absolute value depends on the angle folded
\* into the first quarter turn: v of the 2n-th parts of a turn, 0 <= 2v <= n
FoldStep(i, n) ==
    LET v == (2 * i) % n
    IN  IF 2 * v > n THEN n - v ELSE v

\* cos(pi * v / n) in units of 1 / CosScale, rounded down, for every n of
\* MinFrames..MaxFrames (row n - MinFrames + 1) and every v of 0..n div 2
\* (place v + 1)
CosHalfTurn ==
    <<
      <<1000000000, 987688340, 951056516, 891006524, 809016994, 707106781, 587785252,
        453990499, 309016994, 156434465, 0>>,
      <<1000000000, 988830826, 955572805, 900968867, 826238774, 733051871, 623489801,
        500000000, 365341024, 222520933, 74730093>>,
      <<1000000000, 989821441, 959492973, 909631995, 841253532, 755749574, 654860733,
        540640817, 415415013, 281732556, 142314838, 0>>,
      <<1000000000, 990685946, 962917287, 917211301, 854419404, 775711290, 682553143,
        576680322, 460065037, 334879612, 203456013, 68242413>>,
      <<1000000000, 991444861, 965925826, 923879532, 866025403, 793353340, 707106781,
        608761429, 500000000, 382683432, 258819045, 130526192, 0>>,
      <<1000000000, 992114701, 968583161, 929776485, 876306680, 809016994, 728968627,
        637423989, 535826794, 425779291, 309016994, 187381314, 62790519>>,
      <<1000000000, 992708874, 970941817, 935016242, 885456025, 822983865, 748510748,
        663122658, 568064746, 464723172, 354604887, 239315664, 120536680, 0>>,
      <<1000000000, 993238357, 973044870, 939692620, 893632640, 835487811, 766044443,
        686241637, 597158591, 500000000, 396079766, 286803232, 173648177, 58144828>>,
      <<1000000000, 993712209, 974927912, 943883330, 900968867, 846724199, 781831482,
        707106781, 623489801, 532032076, 433883739, 330279061, 222520933, 111964476,
        0>>,
      <<1000000000, 994137957, 976620555, 947653171, 907575419, 856857176, 796093065,
        725995491, 647386284, 561187065, 468408440, 370138155, 267528338, 161781996,
        54138908>>,
      <<1000000000, 994521895, 978147600, 951056516, 913545457, 866025403, 809016994,
        743144825, 669130606, 587785252, 500000000, 406736643, 309016994, 207911690,
        104528463, 0>>,
      <<1000000000, 994869323, 979529941, 954139256, 918957811, 874346616, 820763441,
        758758122, 688966919, 612105982, 528964010, 440394151, 347305252, 250652532,
        151427777, 50649168>>,
      <<1000000000, 995184726, 980785280, 956940335, 923879532, 881921264, 831469612,
        773010453, 707106781, 634393284, 555570233, 471396736, 382683432, 290284677,
        195090322, 98017140, 0>>,
      <<1000000000, 995471922, 981928697, 959492973, 928367933, 888835448, 841253532,
        786053094, 723734038, 654860733, 580056909, 500000000, 415415013, 327067963,
        235758935, 142314838, 47581915>>,
      <<1000000000, 995734176, 982973099, 961825643, 932472229, 895163291, 850217135,
        798017227, 739008917, 673695643, 602634636, 526432162, 445738355, 361241666,
        273662990, 183749517, 92268359, 0>>,
      <<1000000000, 995974293, 983929588, 963962860, 936234870, 900968867, 858448793,
        809016994, 753071466, 691062648, 623489801, 550896981, 473868662, 393025031,
        309016994, 222520933, 134233265, 44864830>>,
      <<1000000000, 996194698, 984807753, 965925826, 939692620, 906307787, 866025403,
        819152044, 766044443, 707106781, 642787609, 573576436, 500000000, 422618261,
        342020143, 258819045, 173648177, 87155742, 0>>,
      <<1000000000, 996397488, 985615910, 967732946, 942877445, 911228490, 873014113,
        828509649, 778035754, 721956093, 660674723, 594633176, 524307283, 450203744,
        372856477, 292822771, 210679269, 127017819, 42441203>>,
      <<1000000000, 996584493, 986361303, 969400265, 945817241, 915773326, 879473751,
        837166478, 789140509, 735723910, 677281571, 614212712, 546948158, 475947393,
        401695424, 324699469, 245485487, 164594590, 82579345, 0>>,
      <<1000000000, 996757308, 987050262, 970941817, 948536441, 919979443, 885456025,
        845190085, 799442763, 748510748, 692724353, 632445375, 568064746, 500000000,
        428692561, 354604887, 278217463, 200025693, 120536680, 40265940>>,
      <<1000000000, 996917333, 987688340, 972369920, 951056516, 923879532, 891006524,
        852640164, 809016994, 760405965, 707106781, 649448048, 587785252, 522498564,
        453990499, 382683432, 309016994, 233445363, 156434465, 78459095, 0>>,
      <<1000000000, 997065801, 988280423, 973695423, 953396392, 927502451, 896165556,
        859569606, 817929360, 771489179, 720521593, 665325700, 606225410, 543567550,
        477719818, 409068637, 338016878, 264981502, 190391109, 114683425, 38302733>>,
      <<1000000000, 997203797, 988830826, 974927912, 955572805, 930873748, 900968867,
        866025403, 826238774, 781831482, 733051871, 680172737, 623489801, 563320058,
        500000000, 433883739, 365341024, 294755174, 222520933, 149042266, 74730093,
        0>>,
      <<1000000000, 997332283, 989343368, 976075877, 957600599, 934016108, 905448237,
        872049408, 833997817, 791496488, 744772182, 694074195, 639673021, 581858915,
        520940340, 457242323, 391104720, 322880404, 252933382, 181636850, 109371208,
        36522023>>,
      <<1000000000, 997452114, 989821441, 977146865, 959492973, 936949724, 909631995,
        877678989, 841253532, 800541240, 755749574, 707106781, 654860733, 599277666,
        540640817, 479248986, 415415013, 349464179, 281732556, 212565289, 142314838,
        71339183, 0>>,
      <<1000000000, 997564050, 990268068, 978147600, 961261695, 939692620, 913545457,
        882947592, 848048096, 809016994, 766044443, 719339800, 669130606, 615661475,
        559192903, 500000000, 438371146, 374606593, 309016994, 241921895, 173648177,
        104528463, 34899496>>,
      <<1000000000, 997668769, 990685946, 979084087, 962917287, 942260922, 917211301,
        887885218, 854419404, 816969893, 775711290, 730835964, 682553143, 631087944,
        576680322, 519583950, 460065037, 398401089, 334879612, 269796771, 203456013,
        136166649, 68242413, 0>>,
      <<1000000000, 997766878, 991077488, 979961705, 964469175, 944669091, 920649886,
        892518835, 860401579, 824441560, 784799385, 741652105, 695192427, 645627851,
        593179744, 538082353, 480581755, 420934762, 359407772, 296275580, 231820150,
        166329354, 100095691, 33414977>>,
      <<1000000000, 997858923, 991444861, 980785280, 965925826, 946930129, 923879532,
        896872741, 866025403, 831469612, 793353340, 751839807, 707106781, 659345815,
        608761429, 555570233, 500000000, 442288690, 382683432, 321439465, 258819045,
        195090322, 130526192, 65403129, 0>>,
      <<1000000000, 997945392, 991790013, 981559156, 967294863, 949055747, 926916757,
        900968867, 871318704, 838088104, 801413621, 761445958, 718349350, 672300890,
        623489801, 572116660, 518392568, 462538290, 404783343, 345365054, 284527586,
        222520933, 159599895, 96023025, 32051577>>,
      <<1000000000, 998026728, 992114701, 982287250, 968583161, 951056516, 929776485,
        904827052, 876306680, 844327925, 809016994, 770513242, 728968627, 684547105,
        637423989, 587785252, 535826794, 481753674, 425779291, 368124552, 309016994,
        248689887, 187381314, 125333233, 62790519, 0>>,
      <<1000000000, 998103328, 992420509, 982973099, 969796936, 952942000, 932472229,
        908465271, 881012194, 850217135, 816196912, 779080574, 739008917, 696133945,
        650618300, 602634636, 552364972, 500000000, 445738355, 389785873, 332354799,
        273662990, 213933083, 153391654, 92268359, 30795058>>,
      <<1000000000, 998175554, 992708874, 983619906, 970941817, 954720866, 935016242,
        911899845, 885456025, 855781272, 822983865, 787183480, 748510748, 707106781,
        663122658, 616718872, 568064746, 517337814, 464723172, 410412805, 354604887,
        297503053, 239315664, 180255037, 120536680, 60378497, 0>>,
      <<1000000000, 998243731, 992981096, 984230577, 972022914, 956400984, 937419661,
        915145617, 889657090, 861043611, 829405685, 794854441, 757511242, 717507257,
        674983001, 630087843, 582979479, 533823377, 482792202, 430065202, 375827582,
        320269853, 263587166, 205978618, 147646564, 88795895, 29633327>>,
      <<1000000000, 998308158, 993238357, 984807753, 973044870, 957989512, 939692620,
        918216106, 893632640, 866025403, 835487811, 802123192, 766044443, 727373641,
        686241637, 642787609, 597158591, 549508978, 500000000, 448799180, 396079766,
        342020143, 286803232, 230615870, 173648177, 116092914, 58144828, 0>>,
      <<1000000000, 998369103, 993481735, 985353835, 974011916, 959492973, 941844363,
        921123653, 897398428, 870746077, 841253532, 809016994, 774141610, 736741137,
        696937568, 654860733, 610647879, 564443218, 516397461, 466667323, 415415013,
        362807705, 309016994, 254218334, 198590466, 142314838, 85575008, 28556050>>,
      <<1000000000, 998426815, 993712209, 985871018, 974927912, 960917321, 943883330,
        923879532, 900968867, 875223421, 846724199, 815560868, 781831482, 745642164,
        707106781, 666346577, 623489801, 578671296, 532032076, 483718887, 433883739,
        382683432, 330279061, 276835511, 222520933, 167506223, 111964476, 56070447,
        0>>,
      <<1000000000, 998481516, 993930677, 986361303, 975796382, 962268000, 945817241,
        926494067, 904357160, 879473751, 851919408, 821777815, 789140509, 754106609,
        716782513, 677281571, 635723748, 592235252, 546948158, 500000000, 451533358,
        401695424, 350637555, 298514811, 245485487, 191710631, 137353557, 82579345,
        27554342>>,
      <<1000000000, 998533413, 994137957, 986826522, 976620555, 963549992, 947653171,
        928976719, 907575419, 883512044, 856857176, 827688998, 796093065, 762162055,
        725995491, 687699458, 647386284, 605174215, 561187065, 515553857, 468408440,
        419889101, 370138155, 319301530, 267528338, 214970440, 161781996, 108119018,
        54138908, 0>>,
      <<1000000000, 998582695, 994334800, 987268354, 977403389, 964767868, 949397608,
        931336177, 910634772, 887352075, 861554081, 833313919, 802711637, 769833983,
        734774150, 697631521, 658511379, 617524614, 574787410, 530420908, 484550870,
        437307320, 388824175, 339238866, 288691947, 237326699, 185288724, 132725527,
        79786105, 26620521>>,
      <<1000000000, 998629534, 994521895, 987688340, 978147600, 965925826, 951056516,
        933580426, 913545457, 891006524, 866025403, 838670567, 809016994, 777145961,
        743144825, 707106781, 669130606, 629320391, 587785252, 544639035, 500000000,
        453990499, 406736643, 358367949, 309016994, 258819045, 207911690, 156434465,
        104528463, 52335956, 0>>,
      <<1000000000, 998674089, 994699875, 988087896, 978855685, 967027724, 952635380,
        935716819, 916316904, 894487082, 870285241, 843775559, 815028337, 784119806,
        751131930, 716152188, 679273338, 640593178, 600214280, 558243722, 514792801,
        469976743, 423914390, 376727893, 328542381, 279485634, 229687742, 179280758,
        128398355, 77175462, 25747913>>,
      <<1000000000, 998716507, 994869323, 988468324, 979529941, 968077118, 954139256,
        937752132, 918957811, 897804539, 874346616, 848644257, 820763441, 790775736,
        758758122, 724792787, 688966919, 651372482, 612105982, 571268215, 528964010,
        485301962, 440394151, 394355855, 347305252, 299363122, 250652532, 201298520,
        151427777, 101168321, 50649168, 0>>,
      <<1000000000, 998756921, 995030775, 988830826, 980172487, 969077286, 955572805,
        939692620, 921476211, 900968867, 878221573, 853290881, 826238774, 797132507,
        766044443, 733051871, 698236818, 661685837, 623489801, 583743672, 542546263,
        500000000, 456210657, 411287103, 365341024, 318486650, 270840468, 222520933,
        173648177, 124343704, 74730093, 24930691>>,
      <<1000000000, 998795456, 995184726, 989176509, 980785280, 970031253, 956940335,
        941544065, 923879532, 903989293, 881921264, 857728610, 831469612, 803207531,
        773010453, 740951125, 707106781, 671558954, 634393284, 595699304, 555570233,
        514102744, 471396736, 427555093, 382683432, 336889853, 290284677, 242980179,
        195090322, 146730474, 98017140, 49067674, 0>>,
      <<1000000000, 998832226, 995331634, 989506399, 981370126, 970941817, 958245829,
        943311813, 926174648, 906874360, 885456025, 861969666, 836470138, 809016994,
        779674354, 748510748, 715598960, 681015858, 644842212, 607162507, 568064746,
        527640244, 485983413, 443191545, 399364583, 354604887, 309016994, 262707378,
        215784196, 168357041, 120536680, 72434800, 24163745>>,
      <<1000000000, 998867339, 995471922, 989821441, 981928697, 971811568, 959492973,
        945000818, 928367933, 909631995, 888835448, 866025403, 841253532, 814575952,
        786053094, 755749574, 723734038, 690079011, 654860733, 618158986, 580056909,
        540640817, 500000000, 458226521, 415415013, 371662455, 327067963, 281732556,
        235758935, 189251244, 142314838, 95056043, 47581915, 0>>,
      <<1000000000, 998900891, 995605982, 990122514, 982462542, 972642905, 960685187,
        946615675, 930465296, 912269552, 892068442, 869906372, 845832059, 819898423,
        792162473, 762685178, 731531335, 698769427, 664471473, 628712866, 591572212,
        553131154, 513474193, 472688505, 430863744, 388091852, 344466850, 300084635,
        255042768, 209440262, 163377361, 116955321, 70276188, 23442573>>,
      <<1000000000, 998932974, 995734176, 990410430, 982973099, 973438054, 961825643,
        948160647, 932472229, 914793868, 895163291, 873622390, 850217135, 824997474,
        798017227, 769333970, 739008917, 707106781, 673695643, 638846805, 602634636,
        565136414, 526432162, 486604478, 445738355, 403921004, 361241666, 317791419,
        273662990, 228950549, 183749517, 138156354, 92268359, 46183458, 0>>,
      <<1000000000, 998963673, 995856842, 990685946, 983461701, 974199082, 962917287,
        949639698, 934393837, 917211301, 898127705, 877182602, 854419404, 829885291,
        803631115, 775711290, 746183685, 715109501, 682553143, 648582089, 613266750,
        576680322, 538898635, 500000000, 460065037, 419176520, 377419195, 334879612,
        291645939, 247807785, 203456013, 158682546, 113580186, 68242413, 22763197>>,
      <<1000000000, 998993066, 995974293, 990949761, 983929588, 974927912, 963962860,
        951056516, 936234870, 919527772, 900968867, 880595531, 858448793, 834573253,
        809016994, 781831482, 753071466, 722794863, 691062648, 657938725, 623489801,
        587785252, 550896981, 512899277, 473868662, 433883739, 393025031, 351374824,
        309016994, 266036845, 222520933, 178556894, 134233265, 89639308, 44864830,
        0>>,
      <<1000000000, 999021226, 996086822, 991202530, 984377914, 975626331, 964964914,
        952414533, 937999756, 921748800, 903693477, 883869132, 862314572, 839071991,
        814186886, 787707973, 759687084, 730179072, 699241701, 666935530, 633323803,
        598472314, 562449287, 525325240, 487172843, 448066783, 408083612, 367301597,
        325800572, 283661778, 240967702, 197801920, 154248932, 110393995, 66322956,
        22122087>>,
      <<1000000000, 999048221, 996194698, 991444861, 984807753, 976296007, 965925826,
        953716950, 939692620, 923879532, 906307787, 887010833, 866025403, 843391445,
        819152044, 793353340, 766044443, 737277336, 707106781, 675590207, 642787609,
        608761429, 573576436, 537299608, 500000000, 461748613, 422618261, 382683432,
        342020143, 300705799, 258819045, 216439613, 173648177, 130526192, 87155742,
        43619387, 0>>,
      <<1000000000, 999074115, 996298174, 991677319, 985220106, 976938492, 966847813,
        954966754, 941317317, 925924777, 908817637, 890027576, 869589389, 847540922,
        823923005, 798779372, 772156584, 744103939, 714673386, 683919421, 651898995,
        618671403, 584298173, 548842958, 512371412, 474951072, 436651231, 397542814,
        357698238, 317191288, 276096973, 234491389, 192451581, 150055398, 107381346,
        64508449, 21516097>>,
      <<1000000000, 999098966, 996397488, 991900435, 985615910, 977555238, 967732946,
        956166734, 942877445, 927889027, 911228490, 892925858, 873014113, 851529137,
        828509649, 803997130, 778035754, 750672305, 721956093, 691938868, 660674723,
        628219997, 594633176, 559974786, 524307283, 487694943, 450203744, 411901248,
        372856477, 333139794, 292822771, 251978061, 210679269, 169000820, 127017819,
        84805924, 42441203, 0>>,
      <<1000000000, 999122830, 996492859, 992114701, 985996037, 978147600, 968583161,
        957319497, 944376370, 929776485, 913545457, 895711760, 876306680, 855364260,
        832921240, 809016994, 783693457, 756995055, 728968627, 699663340, 669130606,
        637423989, 604599114, 570713567, 535826794, 500000000, 463296035, 425779291,
        387515586, 348572047, 309016994, 268919820, 228350870, 187381314, 146083028,
        104528463, 62790519, 20942419>>,
      <<1000000000, 999145758, 996584493, 992320579, 986361303, 978716845, 969400265,
        958427482, 945817241, 931591088, 915773326, 898390981, 879473751, 859053954,
        837166478, 813848717, 789140509, 763084068, 735723910, 707106781, 677281571,
        646299237, 614212712, 581076815, 546948158, 511885049, 475947393, 439196588,
        401695424, 363507970, 324699469, 285336224, 245485487, 205215342, 164594590,
        123692631, 82579345, 41324974, 0>>,
      <<1000000000, 999167799, 996672582, 992518502, 986712473, 979264158, 970185955,
        959492973, 947203010, 933336521, 917916585, 900968867, 882521576, 862605415,
        841253532, 818501466, 794387085, 768950525, 742234123, 714282345, 685141714,
        654860733, 623489801, 591081132, 557688666, 523367983, 488176206, 452171907,
        415415013, 377966701, 339889301, 301246189, 262101682, 222520933, 182569820,
        142314838, 101822986, 61161660, 20398537>>,
      <<1000000000, 999188998, 996757308, 992708874, 987050262, 979790652, 970941817,
        960518111, 948536441, 935016242, 919979443, 903450434, 885456025, 866025403,
        845190085, 822983865, 799442763, 774604961, 748510748, 721202447, 692724353,
        663122658, 632445375, 600742264, 568064746, 534465826, 500000000, 464723172,
        428692561, 391966609, 354604887, 316667993, 278217463, 239315664, 200025693,
        160411280, 120536680, 80466568, 40265940, 0>>,
      <<1000000000, 999209397, 996838839, 992892073, 987375341, 980297366, 971669340,
        961504904, 949820131, 936633498, 921965854, 905840393, 888282612, 869320274,
        848983362, 827304032, 804316565, 780057308, 754564620, 727878810, 700042074,
        671098428, 641093637, 610075146, 578092000, 545194772, 511435479, 476867501,
        441545498, 405525320, 368863924, 331619278, 293850274, 255616632, 216978808,
        177997895, 138735531, 99253798, 59615125, 19882187>>,
      <<1000000000, 999229036, 996917333, 993068456, 987688340, 980785280, 972369920,
        962455236, 951056516, 938191335, 923879532, 908143173, 891006524, 872496007,
        852640164, 831469612, 809016994, 785316930, 760405965, 734322509, 707106781,
        678800745, 649448048, 619093949, 587785252, 555570233, 522498564, 488621241,
        453990499, 418659737, 382683432, 346117057, 309016994, 271440449, 233445363,
        195090322, 156434465, 117537397, 78459095, 39259815, 0>>,
      <<1000000000, 999247952, 996992941, 993238357, 987989849, 981255310, 973044870,
        963370878, 952247885, 939692620, 925723969, 910362940, 893632640, 875558231,
        856166899, 835487811, 813552070, 790392669, 766044443, 740544013, 713929734,
        686241637, 657521368, 627812124, 597158591, 565606875, 533204432, 500000000,
        466043519, 431386065, 396079766, 360177724, 323733942, 286803232, 249441144,
        211703872, 173648177, 135331299, 96810870, 58144828, 19391331>>,
      <<1000000000, 999266181, 997065801, 993402089, 988280423, 981708319, 973695423,
        964253495, 953396392, 941140047, 927502451, 912503616, 896165556, 878512250,
        859569606, 839365426, 817929360, 795292871, 771489179, 746553221, 720521593,
        693432500, 665325700, 636242442, 606225410, 575318660, 543567550, 511018679,
        477719818, 443719837, 409068637, 373817071, 338016878, 301720598, 264981502,
        227853508, 190391109, 152649284, 114683425, 76549252, 38302733, 0>>,
      <<1000000000, 999283754, 997136045, 993559947, 988560585, 982145119, 974322740,
        965104653, 954504062, 942536154, 929218072, 914568894, 898609604, 881363066,
        862853983, 843108870, 822156011, 800025422, 776748805, 752359502, 726892451,
        700384134, 672872524, 644397030, 614998444, 584718878, 553601708, 521691509,
        489033992, 455675938, 421665133, 387050297, 351881015, 316207666, 280081354,
        243553827, 206677412, 169504934, 132089641, 94485131, 56745273, 18924127>>,
      <<1000000000, 999300704, 997203797, 993712209, 988830826, 982566473, 974927912,
        965925826, 955572805, 943883330, 930873748, 916562255, 900968867, 884115393,
        866025403, 846724199, 826238774, 804597779, 781831482, 757971723, 733051871,
        707106781, 680172737, 652287411, 623489801, 593820185, 563320058, 532032076,
        500000000, 467268628, 433883739, 399892024, 365341024, 330279061, 294755174,
        258819045, 222520933, 185911607, 149042266, 111964476, 74730093, 37391194,
        0>>,
      <<1000000000, 999317060, 997269173, 993859136, 989091608, 982973099, 975511967,
        966718404, 956604419, 945183828, 932472229, 918486985, 903247199, 886773685,
        869088946, 850217135, 830184030, 809016994, 786744938, 763398282, 739008917,
        713610154, 687236685, 659924534, 631711006, 602634636, 572735140, 542053356,
        510631193, 478511569, 445738355, 412356317, 378411050, 343948918, 309016994,
        273662990, 237935195, 201882409, 165553876, 128999216, 92268359, 55411474,
        18478904>>,
      <<1000000000, 999332848, 997332283, 994000975, 989343368, 983365676, 976075877,
        967483697, 957600599, 946439773, 934016108, 920346183, 905448237, 889342148,
        872049408, 853593089, 833997817, 813289740, 791496488, 768647139, 744772182,
        719903473, 694074195, 667318811, 639673021, 611173714, 581858915, 551767740,
        520940340, 489417847, 457242323, 424456698, 391104720, 357230889, 322880404,
        288099099, 252933382, 217430175, 181636850, 145601167, 109371208, 72995314,
        36522023, 0>>,
      <<1000000000, 999348095, 997393231, 994137957, 989586516, 983744843, 976620555,
        968222940, 958562947, 947653171, 935507835, 922142776, 907575419, 891824757,
        874911325, 856857176, 837685848, 817422338, 796093065, 773725839, 750349822,
        725995491, 700694602, 674480140, 647386284, 619448361, 590702795, 561187065,
        530939654, 500000000, 468408440, 436206166, 403435161, 370138155, 336358559,
        302140415, 267528338, 232567455, 197303349, 161781996, 126049711, 90153081,
        54138908, 18054149>>,
      <<1000000000, 999362825, 997452114, 994270301, 989821441, 984111204, 977146865,
        968937301, 959492973, 948825916, 936949724, 923879532, 909631995, 894225269,
        877678989, 860014240, 841253532, 821420775, 800541240, 778641538, 755749574,
        731894522, 707106781, 681417939, 654860733, 627469007, 599277666, 570322636,
        540640817, 510270033, 479248986, 447617210, 415415013, 382683432, 349464179,
        315799587, 281732556, 247306500, 212565289, 177553196, 142314838, 106895121,
        71339183, 35692333, 0>>,
      <<1000000000, 999377062, 997509025, 994398216, 990048510, 984465327, 977655623,
        969627882, 960392106, 949959800, 938343963, 925559066, 911621038, 896547243,
        880356462, 863068867, 844705995, 825290725, 804847246, 783401026, 760978787,
        737608463, 713319171, 688141172, 662105834, 635245596, 607593920, 579185258,
        550055003, 520239448, 489775740, 458701832, 427056438, 394878986, 362209563,
        329088873, 295558178, 261659255, 227434338, 192926065, 158177430, 123231726,
        88132491, 52923454, 17648480>>,
      <<1000000000, 999390827, 997564050, 994521895, 990268068, 984807753, 978147600,
        970295726, 961261695, 951056516, 939692620, 927183854, 913545457, 898794046,
        882947592, 866025403, 848048096, 829037572, 809016994, 788010753, 766044443,
        743144825, 719339800, 694658370, 669130606, 642787609, 615661475, 587785252,
        559192903, 529919264, 500000000, 469471562, 438371146, 406736643, 374606593,
        342020143, 309016994, 275637355, 241921895, 207911690, 173648177, 139173100,
        104528463, 69756473, 34899496, 0>>,
      <<1000000000, 999404140, 997617272, 994641524, 990480443, 985138989, 978623525,
        970941817, 962103019, 952117665, 940997655, 928756240, 915408008, 900968867,
        885456025, 868887968, 851284441, 832666422, 813056099, 792476841, 770953174,
        748510748, 725176307, 700977659, 675943644, 650104093, 623489801, 596132485,
        568064746, 539320034, 509932604, 479937477, 449370400, 418267800, 386666742,
        354604887, 322120441, 289252119, 256039090, 222520933, 188737595, 154729334,
        120536680, 86200379, 51761352, 17260640>>,
      <<1000000000, 999417022, 997668769, 994757278, 990685946, 985459517, 979084087,
        971567089, 962917287, 953144766, 942260922, 930278443, 917211301, 903074732,
        887885218, 871660470, 854419404, 836182124, 816969893, 796805111, 775711290,
        753713025, 730835964, 707106781, 682553143, 657203678, 631087944, 604236389,
        576680322, 548451871, 519583950, 490110217, 460065037, 429483443, 398401089,
        366854218, 334879612, 302514550, 269796771, 236764420, 203456013, 169910385,
        136166649, 102264148, 68242413, 34141110, 0>>,
      <<1000000000, 999429490, 997718614, 994869323, 990884868, 985769795, 979529941,
        972172425, 963705643, 954139256, 943484178, 931752568, 918957811, 905114507,
        890238450, 874346616, 857457136, 839589281, 820763441, 801001094, 780324790,
        758758122, 736325697, 713053111, 688966919, 664094602, 638464542, 612105982,
        585048998, 557324463, 528964010, 500000000, 470465480, 440394151, 409820324,
        378778885, 347305252, 315435338, 283205506, 250652532, 217813558, 184726056,
        151427777, 117956717, 84351066, 50649168, 16889480>>,
      <<1000000000, 999441563, 997766878, 994977815, 991077488, 986070253, 979961705,
        972758663, 964469175, 955102497, 944669091, 933180611, 920649886, 907090913,
        892518835, 876949928, 860401579, 842892271, 824441560, 805070053, 784799385,
        763652196, 741652105, 718823683, 695192427, 670784730, 645627851, 619749888,
        593179744, 565947094, 538082353, 509616642, 480581755, 451010119, 420934762,
        390389275, 359407772, 328024857, 296275580, 264195401, 231820150, 199185985,
        166329354, 133286955, 100095691, 66792633, 33414977, 0>>,
      <<1000000000, 999453257, 997813627, 995082902, 991264069, 986361303, 980379965,
        973326597, 965208910, 956035781, 945817241, 934564464, 922289754, 909006535,
        894729329, 879473751, 863256480, 846095252, 828008831, 809016994, 789140509,
        768401110, 746821476, 724425204, 701236784, 677281571, 652585761, 627176358,
        601081147, 574328662, 546948158, 518969573, 490423503, 461341162, 431754352,
        401695424, 371197248, 340293174, 309016994, 277402908, 245485487, 213299630,
        180880534, 148263647, 115484636, 82579345, 49583754, 16533944>>,
      <<1000000000, 999464587, 997858923, 995184726, 991444861, 986643332, 980785280,
        973876979, 965925826, 956940335, 946930129, 935905926, 923879532, 910863824,
        896872741, 881921264, 866025403, 849202181, 831469612, 812846684, 793353340,
        773010453, 751839807, 729864072, 707106781, 683592302, 659345815, 634393284,
        608761429, 582477696, 555570233, 528067850, 500000000, 471396736, 442288690,
        412707029, 382683432, 352250047, 321439465, 290284677, 258819045, 227076263,
        195090322, 162895473, 130526192, 98017140, 65403129, 32719082, 0>>,
      <<1000000000, 999475569, 997902826, 995283421, 991620101, 986916708, 981178176,
        974410524, 966620850, 957817324, 948009179, 937206705, 925421229, 912665115,
        898951741, 884295490, 868711736, 852216823, 834828053, 816563663, 797442810,
        777485550, 756712815, 735146393, 712808904, 689723777, 665915225, 641408219,
        616228465, 590402373, 563957029, 536920173, 509320162, 481185944, 452547029,
        423433454, 393875756, 363904936, 333552431, 302850075, 271830072, 240524956,
        208967563, 177190991, 145228571, 113113826, 80880440, 48562222, 16193068>>,
      <<1000000000, 999486216, 997945392, 995379112, 991790013, 987181783, 981559156,
        974927912, 967294863, 958667853, 949055747, 938468422, 926916757, 914412623,
        900968867, 886599306, 871318704, 855142763, 838088104, 820172254, 801413621,
        781831482, 761445958, 740277997, 718349350, 695682550, 672300890, 648228395,
        623489801, 598110530, 572116660, 545534901, 518392568, 490717552, 462538290,
        433883739, 404783343, 375267004, 345365054, 315108218, 284527586, 253654583,
        222520933, 191158628, 159599895, 127877161, 96023025, 64070219, 32051577,
        0>>,
      <<1000000000, 999496542, 997986676, 995471922, 991954812, 987438888, 981928697,
        975429786, 967948701, 959492973, 950071117, 939692620, 928367933, 916108457,
        902926538, 888835448, 873849377, 857983413, 841253532, 823676581, 805270257,
        786053094, 766044443, 745264449, 723734038, 701474887, 678509411, 654860733,
        630552667, 605609687, 580056909, 553920063, 527225467, 500000000, 472271074,
        444066612, 415415013, 386345125, 356886221, 327067963, 296920375, 266473813,
        235758935, 204806668, 173648177, 142314838, 110838199, 79249956, 47581915,
        15865963>>,
      <<1000000000, 999506560, 998026728, 995561964, 992114701, 987688340, 982287250,
        975916761, 968583161, 960293685, 951056516, 940880768, 929776485, 917754625,
        904827052, 891006524, 876306680, 860742027, 844327925, 827080574, 809016994,
        790155012, 770513242, 750111069, 728968627, 707106781, 684547105, 661311865,
        637423989, 612907053, 587785252, 562083377, 535826794, 509041415, 481753674,
        453990499, 425779291, 397147890, 368124552, 338737920, 309016994, 278991106,
        248689887, 218143241, 187381314, 156434465, 125333233, 94108313, 62790519,
        31410759, 0>>,
      <<1000000000, 999516282, 998065597, 995649347, 992269872, 987930439, 982635248,
        976389420, 969198999, 961070940, 952013107, 942034263, 931144062, 919353038,
        906672601, 893115016, 878693400, 863421704, 847314704, 830387982, 812657913,
        794141650, 774857107, 754822939, 734058528, 712583964, 690420020, 667588140,
        644110411, 620009547, 595308864, 570032258, 544204182, 517849624, 490994080,
        463663531, 435884418, 407683614, 379088403, 350126449, 320825769, 291214712,
        261321923, 231176322, 200807072, 170243555, 139515338, 108652150, 77683847,
        46640390, 15551811>>,
      <<1000000000, 999525719, 998103328, 995734176, 992420509, 988165472, 982973099,
        976848317, 969796936, 961825643, 952942000, 943154434, 932472229, 920905517,
        908465271, 895163291, 881012194, 866025403, 850217135, 833602385, 816196912,
        798017227, 779080574, 759404916, 739008917, 717911923, 696133945, 673695643,
        650618300, 626923805, 602634636, 577773831, 552364972, 526432162, 500000000,
        473093556, 445738355, 417960344, 389785873, 361241666, 332354799, 303152674,
        273662990, 243913720, 213933083, 183749517, 153391654, 122888290, 92268359,
        61560906, 30795058, 0>>,
      <<1000000000, 999534883, 998139967, 995816548, 992566788, 988393709, 983301195,
        977293981, 970377657, 962558656, 953844251, 944242549, 933762481, 922413797,
        910207054, 897153606, 883265596, 868555944, 853038333, 836727197, 819637711,
        801785770, 783187983, 763861648, 743824744, 723095909, 701694428, 679640207,
        656953763, 633656198, 609769186, 585314947, 560316228, 534796285, 508778858,
        482288147, 455348796, 427985864, 400224807, 372091447, 343611955, 314812824,
        285720844, 256363077, 226766833, 196959643, 166969235, 136823506, 106550499,
        76178376, 45735389, 15249858>>,
      <<1000000000, 999543784, 998175554, 995896557, 992708874, 988615412, 983619906,
        977726916, 970941817, 963270801, 954720866, 945299815, 935016242, 923879532,
        911899845, 899088113, 885456025, 871016019, 855781272, 839765683, 822983865,
        805451132, 787183480, 768197578, 748510748, 728140953, 707106781, 685427422,
        663122658, 640212840, 616718872, 592662191, 568064746, 542948982, 517337814,
        491254611, 464723172, 437767705, 410412805, 382683432, 354604887, 326202789,
        297503053, 268531867, 239315664, 209881102, 180255037, 150464503, 120536680,
        90498875, 60378497, 30203027, 0>>,
      <<1000000000, 999552432, 998210129, 995974293, 992846926, 988830826, 983929588,
        978147600, 971490038, 963962860, 955572805, 946327383, 936234870, 925304300,
        913545457, 900968867, 887585789, 873408200, 858448793, 842720958, 826238774,
        809016994, 791071034, 772416959, 753071466, 733051871, 712376096, 691062648,
        669130606, 646599601, 623489801, 599821894, 575617065, 550896981, 525683769,
        500000000, 473868662, 447313148, 420357228, 393025031, 365341024, 337329987,
        309016994, 280427389, 251586763, 222520933, 193255917, 163817911, 134233265,
        104528463, 74730093, 44864830, 14959407>>,
      <<1000000000, 999560836, 998243731, 996049842, 992981096, 989040187, 984230577,
        978556492, 972022914, 964635581, 956400984, 947326353, 937419661, 926689607,
        915145617, 902797829, 889657090, 875734942, 861043611, 845596003, 829405685,
        812486878, 794854441, 776523862, 757511242, 737833279, 717507257, 696551029,
        674983001, 652822118, 630087843, 606800145, 582979479, 558646765, 533823377,
        508531118, 482792202, 456629237, 430065202, 403123429, 375827582, 348201635,
        320269853, 292056770, 263587166, 234886045, 205978618, 176890275, 147646564,
        118273170, 88795895, 59240627, 29633327, 0>>,
      <<1000000000, 999569006, 998276396, 996123284, 993111527, 989243720, 984523197,
        978954027, 972541011, 965289677, 957206275, 948297773, 938571850, 928036891,
        916701974, 904576873, 891672037, 877998591, 863568321, 848393666, 832487706,
        815864152, 798537334, 780522186, 761834238, 742489598, 722504942, 701897495,
        680685021, 658885805, 636518638, 613602800, 590158044, 566204579, 541763052,
        516854533, 491500491, 465722782, 439543626, 412985589, 386071563, 358824749,
        331268632, 303426965, 275323748, 246983206, 218429767, 189688045, 160782813,
        131738989, 102581608, 73335802, 44026782, 14679812>>,
      <<1000000000, 999576950, 998308158, 996194698, 993238357, 989441638, 984807753,
        979340621, 973044870, 965925826, 957989512, 949242643, 939692620, 929347524,
        918216106, 906307787, 893632640, 880201391, 866025403, 851116672, 835487811,
        819152044, 802123192, 784415664, 766044443, 747025071, 727373641, 707106781,
        686241637, 664795865, 642787609, 620235491, 597158591, 573576436, 549508978,
        524976580, 500000000, 474600369, 448799180, 422618261, 396079766, 369206147,
        342020143, 314544756, 286803232, 258819045, 230615870, 202217572, 173648177,
        144931859, 116092914, 87155742, 58144828, 29084718, 0>>,
      <<1000000000, 999584676, 998339050, 996264156, 993361718, 989634147, 985084539,
        979716673, 973535008, 966544678, 958751491, 950161920, 940783098, 930622818,
        919689519, 907992282, 895540824, 882345486, 868417231, 853767628, 838408845,
        822353639, 805615348, 788207875, 770145678, 751443762, 732117662, 712183430,
        691657624, 670557295, 648899970, 626703637, 603986735, 580768132, 557067116,
        532903374, 508296977, 483268365, 457838326, 432027986, 405858783, 379352454,
        352531017, 325416752, 298032179, 270400047, 242543308, 214485101, 186248732,
        157857657, 129335457, 100705825, 71992543, 43219460, 14410476>>,
      <<1000000000, 999592192, 998369103, 996331730, 993481735, 989821441, 985353835,
        980082561, 974011916, 967146854, 959492973, 951056516, 941844363, 931864029,
        921123653, 909631995, 897398428, 884432930, 870746077, 856349030, 841253532,
        825471896, 809016994, 791902245, 774141610, 755749574, 736741137, 717131804,
        696937568, 676174900, 654860733, 633012453, 610647879, 587785252, 564443218,
        540640817, 516397461, 491732924, 466667323, 441221101, 415415013, 389270106,
        362807705, 336049393, 309016994, 281732556, 254218334, 226496767, 198590466,
        170522192, 142314838, 113991409, 85575008, 57088810, 28556050, 0>>,
      <<1000000000, 999599507, 998398349, 996397488, 993598527, 990003708, 985615910,
        980438647, 974476068, 967732946, 960214685, 951927305, 942877445, 933072353,
        922519884, 911228490, 899207214, 886465687, 873014113, 858863267, 844024484,
        828509649, 812331190, 795502065, 778035754, 759946247, 741248035, 721956093,
        702085875, 681653296, 660674723, 639166958, 617147230, 594633176, 571642829,
        548194604, 524307283, 500000000, 475292223, 450203744, 424754659, 398965351,
        372856477, 346448951, 319763924, 292822771, 265647071, 238258591, 210679269,
        182931197, 155036599, 127017819, 98897300, 70697565, 42441203, 14150845>>,
      <<1000000000, 999606626, 998426815, 996461494, 993712209, 990181125, 985871018,
        980785280, 974927912, 968303522, 960917321, 952775122, 943883330, 934248940,
        923879532, 912783265, 900968867, 888445635, 875223421, 861312628, 846724199,
        831469612, 815560868, 799010485, 781831482, 764037375, 745642164, 726660322,
        707106781, 686996926, 666346577, 645171983, 623489801, 601317091, 578671296,
        555570233, 532032076, 508075345, 483718887, 458981864, 433883739, 408444256,
        382683432, 356621532, 330279061, 303676745, 276835511, 249776478, 222520933,
        195090322, 167506223, 139790339, 111964476, 84050524, 56070447, 28046256,
        0>>,
      <<1000000000, 999613557, 998454528, 996523809, 993822891, 990353863, 986119404,
        981122789, 975367879, 968859122, 961601548, 953600766, 944862961, 935394885,
        925203857, 914297752, 902685001, 890374578, 877375997, 863699306, 849355074,
        834354389, 818708844, 802430531, 785532031, 768026406, 749927184, 731248355,
        712004355, 692210058, 671880761, 651032179, 629680423, 607841996, 585533778,
        562773009, 539577282, 515964523, 491952983, 467561220, 442808086, 417712712,
        392294495, 366573078, 340568343, 314300388, 287789515, 261056213, 234121145,
        207005129, 179729121, 152314203, 124781564, 97152483, 69448315, 41690470,
        13900404>>,
      <<1000000000, 999620307, 998481516, 996584493, 993930677, 990522084, 986361303,
        981451493, 975796382, 969400265, 962268000, 954405001, 945817241, 936511241,
        926494067, 915773326, 904357160, 892254238, 879473751, 866025403, 851919408,
        837166478, 821777815, 805765105, 789140509, 771916650, 754106609, 735723910,
        716782513, 697296801, 677281571, 656752024, 635723748, 614212712, 592235252,
        569808057, 546948158, 523672913, 500000000, 475947393, 451533358, 426776435,
        401695424, 376309371, 350637555, 324699469, 298514811, 272103464, 245485487,
        218681091, 191710631, 164594590, 137353557, 110008220, 82579345, 55087760,
        27554342, 0>>,
      <<1000000000, 999626881, 998507803, 996643601, 994035667, 990685946, 986596937,
        981771694, 976213815, 969927449, 962917287, 955188560, 946747035, 937599012,
        927751318, 917211301, 905986826, 894086271, 881518514, 868292935, 854419404,
        839908273, 824770371, 809016994, 792659898, 775711290, 758183817, 740090559,
        721445018, 702261107, 682553143, 662335832, 641624261, 620433886, 598780520,
        576680322, 554149783, 531205717, 507865245, 484145785, 460065037, 435640972,
        410891815, 385836035, 360492330, 334879612, 309016994, 282923776, 256619430,
        230123585, 203456013, 176636614, 149685403, 122622490, 95468072, 68242413,
        40965828, 13658673>>,
      <<1000000000, 999633286, 998533413, 996701189, 994137957, 990845596, 986826522,
        982083682, 976620555, 970441148, 963549992, 955952142, 947653171, 938659164,
        928976719, 918612937, 907575419, 895872260, 883512044, 870503836, 856857176,
        842582073, 827688998, 812188872, 796093065, 779413382, 762162055, 744351737,
        725995491, 707106781, 687699458, 667787758, 647386284, 626509999, 605174215,
        583394579, 561187065, 538567961, 515553857, 492161631, 468408440, 444311706,
        419889101, 395158538, 370138155, 344846302, 319301530, 293522573, 267528338,
        241337891, 214970440, 188445323, 161781996, 135000013, 108119018, 81158725,
        54138908, 27079384, 0>>,
      <<1000000000, 999639527, 998558370, 996757308, 994237638, 991001179, 987050262,
        982387737, 977016965, 970941817, 964166674, 956696420, 948536441, 939692620,
        930171333, 919979443, 909124299, 897613727, 885456025, 872659958, 859234752,
        845190085, 830536083, 815283310, 799442763, 783025862, 766044443, 748510748,
        730437418, 711837483, 692724353, 673111807, 653013984, 632445375, 611420808,
        589955440, 568064746, 545764510, 523070807, 500000000, 476568720, 452793860,
        428692561, 404282198, 379580371, 354604887, 329373752, 303905157, 278217463,
        252329190, 226259002, 200025693, 173648177, 147145470, 120536680, 93840989,
        67077644, 40265940, 13425206>>,
      <<1000000000, 999645611, 998582695, 996812007, 994334800, 991152831, 987268354,
        982684124, 977403389, 971429893, 964767868, 957422038, 949397608, 940700266,
        931336177, 921311977, 910634772, 899312130, 887352075, 874763084, 861554081,
        847734427, 833313919, 818302775, 802711637, 786551555, 769833983, 752570769,
        734774150, 716456740, 697631521, 678311836, 658511379, 638244183, 617524614,
        596367358, 574787410, 552800065, 530420908, 507665800, 484550870, 461092501,
        437307320, 413212185, 388824175, 364160575, 339238866, 314076712, 288691947,
        263102564, 237326699, 211382623, 185288724, 159063496, 132725527, 106293485,
        79786105, 53222174, 26620521, 0>>,
      <<1000000000, 999651541, 998606410, 996865333, 994429525, 991300683, 987480987,
        982973099, 977780162, 971905793, 965354088, 958129612, 950237400, 941682951,
        932472229, 922611651, 912108091, 900968867, 889201744, 876814922, 863817032,
        850217135, 836024708, 821249641, 805902232, 789993177, 773533563, 756534861,
        739008917, 720967946, 702424520, 683391564, 663882340, 643910447, 623489801,
        602634636, 581359485, 559679174, 537608815, 515163786, 492359732, 469212545,
        445738355, 421953524, 397874625, 373518442, 348901948, 324042298, 298956818,
        273662990, 248178441, 222520933, 196708347, 170758672, 144689992, 118520475,
        92268359, 65951940, 39589558, 13199585>>,
      <<1000000000, 999657324, 998629534, 996917333, 994521895, 991444861, 987688340,
        983254907, 978147600, 972369920, 965925826, 958819734, 951056516, 942641491,
        933580426, 923879532, 913545457, 902585284, 891006524, 878817112, 866025403,
        852640164, 838670567, 824126188, 809016994, 793353340, 777145961, 760405965,
        743144825, 725374371, 707106781, 688354575, 669130606, 649448048, 629320391,
        608761429, 587785252, 566406236, 544639035, 522498564, 500000000, 477158760,
        453990499, 430511096, 406736643, 382683432, 358367949, 333806859, 309016994,
        284015344, 258819045, 233445363, 207911690, 182235525, 156434465, 130526192,
        104528463, 78459095, 52335956, 26176948, 0>>,
      <<1000000000, 999662965, 998652088, 996968050, 994611987, 991585486, 987890588,
        983529783, 978506010, 972822657, 966483553, 959492973, 951855628, 943576666,
        934661668, 925116643, 914948025, 904162669, 892767845, 880771233, 868180920,
        855005392, 841253532, 826934609, 812058274, 796634556, 780673851, 764186917,
        747184868, 729679165, 711681608, 693204328, 674259779, 654860733, 635020266,
        614751751, 594068850, 572985506, 551515929, 529674593, 507476220, 484935772,
        462068443, 438889649, 415415013, 391660357, 367641696, 343375219, 318877283,
        294164401, 269253233, 244160569, 218903323, 193498522, 167963289, 142314838,
        116570456, 90747498, 64863369, 38935519, 12981423>>,
      <<1000000000, 999668467, 998674089, 997017526, 994699875, 991722674, 988087896,
        983797951, 978855685, 973264373, 967027724, 960149873, 952635380, 944489228,
        935716819, 926323968, 916316904, 905702263, 894487082, 882678798, 870285241,
        857314628, 843775559, 829677013, 815028337, 799839244, 784119806, 767880446,
        751131930, 733885366, 716152188, 697944154, 679273338, 660152120, 640593178,
        620609481, 600214280, 579421098, 558243722, 536696193, 514792801, 492548067,
        469976743, 447093792, 423914390, 400453905, 376727893, 352752086, 328542381,
        304114832, 279485634, 254671120, 229687742, 204552066, 179280758, 153890576,
        128398355, 102820997, 77175462, 51478754, 25747913, 0>>,
      <<1000000000, 999673836, 998695557, 997065801, 994785631, 991856535, 988280423,
        984059629, 979196905, 973695423, 967558773, 960790958, 953396392, 945379898,
        936746707, 927502451, 917653158, 907205255, 896165556, 884541264, 872339961,
        859569606, 846238531, 832355430, 817929360, 802969733, 787486306, 771489179,
        754988789, 737995899, 720521593, 702577271, 684174638, 665325700, 646042750,
        626338369, 606225410, 585716994, 564826498, 543567550, 521954017, 500000000,
        477719818, 455128007, 432239302, 409068637, 385631124, 361942053, 338016878,
        313871205, 289520784, 264981502, 240269364, 215400492, 190391109, 165257528,
        140016144, 114683425, 89275894, 63810126, 38302733, 12770354>>,
      <<1000000000, 999679075, 998716507, 997112913, 994869323, 991987177, 988468324,
        984315023, 979529941, 974116147, 968077118, 961416730, 954139256, 946249369,
        937752132, 928652999, 918957811, 908672791, 897804539, 886360032, 874346616,
        861772000, 848644257, 834971812, 820763441, 806028263, 790775736, 775015651,
        758758122, 742013585, 724792787, 707106781, 688966919, 670384843, 651372482,
        631942038, 612105982, 591877046, 571268215, 550292715, 528964010, 507295790,
        485301962, 462996644, 440394151, 417508992, 394355855, 370949600, 347305252,
        323437987, 299363122, 275096112, 250652532, 226048070, 201298520, 176419766,
        151427777, 126338594, 101168321, 75933114, 50649168, 25332714, 0>>,
      <<1000000000, 999684189, 998736956, 997158900, 994951016, 992114701, 988651744,
        984564334, 979855052, 974526872, 968583161, 962027671, 954864544, 947098304,
        938733857, 929776485, 920231847, 910105970, 899405251, 888136448, 876306680,
        863923417, 850994481, 837528040, 823532597, 809016994, 793990398, 778462301,
        762442511, 745941145, 728968627, 711535677, 693653305, 675332808, 656585755,
        637423989, 617859613, 597904983, 577572703, 556875616, 535826794, 514439533,
        492727341, 470703932, 448383216, 425779291, 402906435, 379779095, 356411878,
        332819544, 309016994, 285019262, 260841506, 236498997, 212007109, 187381314,
        162637165, 137790290, 112856384, 87851196, 62790519, 37690182, 12566039>>,
      <<1000000000, 999689182, 998756921, 997203797, 995030775, 992239206, 988830826,
        984807753, 980172487, 974927912, 969077286, 962624246, 955572805, 947927346,
        939692620, 930873748, 921476211, 911505852, 900968867, 889871808, 878221573,
        866025403, 853290881, 840025923, 826238774, 811938005, 797132507, 781831482,
        766044443, 749781202, 733051871, 715866849, 698236818, 680172737, 661685837,
        642787609, 623489801, 603804410, 583743672, 563320058, 542546263, 521435203,
        500000000, 478253978, 456210657, 433883739, 411287103, 388434796, 365341024,
        342020143, 318486650, 294755174, 270840468, 246757397, 222520933, 198146143,
        173648177, 149042266, 124343704, 99567846, 74730093, 49845885, 24930691,
        0>>,
      <<1000000000, 999694057, 998776416, 997247638, 995108659, 992360787, 989005704,
        985045463, 980482487, 975319567, 969559864, 963206902, 956264567, 948737107,
        940629129, 931945594, 922691815, 912873454, 902496519, 891567359, 880092662,
        868079450, 855535072, 842467205, 828883844, 814793301, 800204198, 785125462,
        769566318, 753536289, 737045181, 720103086, 702720371, 684907671, 666675886,
        648036172, 628999933, 609578819, 589784713, 569629725, 549126190, 528286652,
        507123863, 485650773, 463880520, 441826425, 419501983, 396920853, 374096854,
        351043950, 327776248, 304307984, 280653518, 256827325, 232843982, 208718166,
        184464638, 160098239, 135633878, 111086525, 86471199, 61802963, 37096911,
        12368159>>,
      <<1000000000, 999698818, 998795456, 997290456, 995184726, 992479534, 989176509,
        985277642, 980785280, 975702130, 970031253, 963776065, 956940335, 949528180,
        941544065, 932992798, 923879532, 914209755, 903989293, 893224301, 881921264,
        870086991, 857728610, 844853565, 831469612, 817584813, 803207531, 788346427,
        773010453, 757208846, 740951125, 724247082, 707106781, 689540544, 671558954,
        653172842, 634393284, 615231590, 595699304, 575808191, 555570233, 534997619,
        514102744, 492898192, 471396736, 449611329, 427555093, 405241314, 382683432,
        359895036, 336889853, 313681740, 290284677, 266712757, 242980179, 219101240,
        195090322, 170961888, 146730474, 122410675, 98017140, 73564563, 49067674,
        24541228, 0>>,
      <<1000000000, 999703469, 998814055, 997332283, 995259033, 992595535, 989343368,
        985504460, 981081089, 976075877, 970491794, 964332150, 957600599, 950301134,
        942438082, 934016108, 925040206, 915515700, 905448237, 894843789, 883708645,
        872049408, 859872993, 847186621, 833997817, 820314402, 806144491, 791496488,
        776379079, 760801231, 744772182, 728301438, 711398768, 694074195, 676337994,
        658200684, 639673021, 620765994, 601490815, 581858915, 561881938, 541571731,
        520940340, 500000000, 478763129, 457242323, 435450344, 413400118, 391104720,
        368577373, 345831438, 322880404, 299737883, 276417598, 252933382, 229299161,
        205528951, 181636850, 157637028, 133543718, 109371208, 85133834, 60845971,
        36522023, 12176414>>,
      <<1000000000, 999708014, 998832226, 997373149, 995331634, 992708874, 989506399,
        985726080, 981370126, 976441078, 970941817, 964875553, 958245829, 951056516,
        943311813, 935016242, 926174648, 916792195, 906874360, 896426937, 885456025,
        873968032, 861969666, 849467935, 836470138, 822983865, 809016994, 794577679,
        779674354, 764315720, 748510748, 732268666, 715598960, 698511365, 681015858,
        663122658, 644842212, 626185197, 607162507, 587785252, 568064746, 548012507,
        527640244, 506959853, 485983413, 464723172, 443191545, 421401107, 399364583,
        377094841, 354604887, 331907853, 309016994, 285945678, 262707378, 239315664,
        215784196, 192126717, 168357041, 144489049, 120536680, 96513920, 72434800,
        48313379, 24163745, 0>>,
      <<1000000000, 999712454, 998849983, 997413083, 995402580, 992819631, 989665720,
        985942661, 981652596, 976797992, 971381640, 965406656, 958876475, 951794853,
        944165863, 935993892, 927283640, 918040115, 908268634, 897974817, 887164582,
        875844147, 864020022, 851699008, 838888189, 825594934, 811826886, 797591965,
        782898356, 767754509, 752169134, 736151193, 719709898, 702854706, 685595307,
        667941630, 649903825, 631492267, 612717544, 593590452, 574121992, 554323359,
        534205941, 513781306, 493061199, 472057538, 450782401, 429248024, 407466789,
        385451225, 363213991, 340767876, 318125788, 295300749, 272305886, 249154422,
        225859672, 202435031, 178893973, 155250034, 131516812, 107707956, 83837159,
        59918147, 35964677, 11990524>>,
      <<1000000000, 999716794, 998867339, 997452114, 995471922, 992927884, 989821441,
        986154353, 981928697, 977146865, 971811568, 965925826, 959492973, 952516653,
        945000818, 936949724, 928367933, 919260303, 909631995, 899488461, 888835448,
        877678989, 866025403, 853881292, 841253532, 828149278, 814575952, 800541240,
        786053094, 771119719, 755749574, 739951364, 723734038, 707106781, 690079011,
        672660373, 654860733, 636690174, 618158986, 599277666, 580056909, 560507602,
        540640817, 520467807, 500000000, 479248986, 458226521, 436944512, 415415013,
        393650218, 371662455, 349464179, 327067963, 304486492, 281732556, 258819045,
        235758935, 212565289, 189251244, 165830005, 142314838, 118719062, 95056043,
        71339183, 47581915, 23797697, 0>>,
      <<1000000000, 999721037, 998884304, 997490268, 995539707, 993033709, 989973672,
        986361303, 982198618, 977487939, 972231895, 966433418, 960095743, 953222405,
        945817241, 937884381, 929428252, 920453570, 910965344, 900968867, 890469717,
        879473751, 867987104, 856016184, 843567671, 830648511, 817265910, 803427336,
        789140509, 774413400, 759254227, 743671446, 727673751, 711270069, 694469551,
        677281571, 659715718, 641781793, 623489801, 604849949, 585872635, 566568448,
        546948158, 527022711, 506803225, 486300981, 465527416, 444494122, 423212834,
        401695424, 379953898, 358000386, 335847137, 313506510, 290990969, 268313077,
        245485487, 222520933, 199432230, 176232259, 152933962, 129550340, 106094439,
        82579345, 59018178, 35424083, 11810224>>,
      <<1000000000, 999725185, 998900891, 997527572, 995605982, 993137177, 990122514,
        986563651, 982462542, 977821443, 972642905, 966929773, 960685187, 953912580,
        946615675, 938798481, 930465296, 921620699, 912269552, 902416995, 892068442,
        881229582, 869906372, 858105035, 845832059, 833094188, 819898423, 806252018,
        792162473, 777637532, 762685178, 747313629, 731531335, 715346969, 698769427,
        681807821, 664471473, 646769912, 628712866, 610310261, 591572212, 572509017,
        553131154, 533449273, 513474193, 493216892, 472688505, 451900313, 430863744,
        409590360, 388091852, 366380038, 344466850, 322364333, 300084635, 277640001,
        255042768, 232305356, 209440262, 186460054, 163377361, 140204872, 116955321,
        93641489, 70276188, 46872262, 23442573, 0>>,
      <<1000000000, 999729241, 998917111, 997564050, 995670790, 993238357, 990268068,
        986761532, 982720646, 978147600, 973044870, 967415219, 961261695, 954587632,
        947396642, 939692620, 931479738, 922762444, 913545457, 903833769, 893632640,
        882947592, 871784413, 860149147, 848048096, 835487811, 822475095, 809016994,
        795120796, 780794026, 766044443, 750880032, 735309008, 719339800, 702981057,
        686241637, 669130606, 651657228, 633830967, 615661475, 597158591, 578332336,
        559192903, 539750657, 520016127, 500000000, 479713113, 459166453, 438371146,
        417338454, 396079766, 374606593, 352930564, 331063417, 309016994, 286803232,
        264434162, 241921895, 219278624, 196516609, 173648177, 150685712, 127641647,
        104528463, 81358674, 58144828, 34899496, 11635265>>,
      <<1000000000, 999733208, 998932974, 997599727, 995734176, 993337317, 990410430,
        986955076, 982973099, 978466623, 973438054, 967890073, 961825643, 955247997,
        948160647, 940567374, 932472229, 923879532, 914793868, 905220085, 895163291,
        884628852, 873622390, 862149777, 850217135, 837830831, 824997474, 811723912,
        798017227, 783884733, 769333970, 754372704, 739008917, 723250806, 707106781,
        690585455, 673695643, 656446359, 638846805, 620906373, 602634636, 584041342,
        565136414, 545929938, 526432162, 506653491, 486604478, 466295821, 445738355,
        424943051, 403921004, 382683432, 361241666, 339607147, 317791419, 295806123,
        273662990, 251373834, 228950549, 206405101, 183749517, 160995888, 138156354,
        115243103, 92268359, 69244382, 46183458, 23097891, 0>>,
      <<1000000000, 999737088, 998948492, 997634625, 995796180, 993434122, 990549693,
        987144411, 983220065, 978778720, 973822710, 968354642, 962377390, 955894099,
        948908176, 941423296, 933443394, 924972665, 916015565, 906576803, 896661341,
        886274395, 875421425, 864108139, 852340484, 840124649, 827467058, 814374365,
        800853455, 786911438, 772555646, 757793625, 742633139, 727082160, 711148864,
        694841630, 678169032, 661139837, 643763000, 626047657, 608003124, 589638889,
        570964608, 551990101, 532725344, 513180469, 493365751, 473291611, 452968603,
        432407413, 411618854, 390613856, 369403464, 347998832, 326411213, 304651960,
        282732515, 260664401, 238459225, 216128661, 193684452, 171138399, 148502358,
        125788230, 103007960, 80173527, 57296936, 34390217, 11465415>>,
      <<1000000000, 999740884, 998963673, 997668769, 995856842, 993528832, 990685946,
        987329655, 983461701, 979084087, 974199082, 968809218, 962917287, 956526343,
        949639698, 942260922, 934393837, 926042520, 917211301, 907904755, 898127705,
        887885218, 877182602, 866025403, 854419404, 842370619, 829885291, 816969893,
        803631115, 789875871, 775711290, 761144712, 746183685, 730835964, 715109501,
        699012447, 682553143, 665740119, 648582089, 631087944, 613266750, 595127742,
        576680322, 557934048, 538898635, 519583950, 500000000, 480156934, 460065037,
        439734721, 419176520, 398401089, 377419195, 356241711, 334879612, 313343967,
        291645939, 269796771, 247807785, 225690379, 203456013, 181116209, 158682546,
        136166649, 113580186, 90934862, 68242413, 45514599, 22763197, 0>>,
      <<1000000000, 999744599, 998978528, 997702178, 995916201, 993621509, 990819274,
        987510928, 983698160, 979382918, 974567407, 969254086, 963445669, 957145123,
        950355666, 943080767, 935324141, 927089751, 918381803, 909204744, 899563263,
        889462284, 878906967, 867902703, 856455114, 844570047, 832253573, 819511983,
        806351785, 792779703, 778802667, 764427819, 749662500, 734514253, 718990815,
        703100116, 686850273, 670249586, 653306535, 636029775, 618428130, 600510591,
        582286311, 563764598, 544954914, 525866867, 506510206, 486894820, 467030727,
        446928075, 426597131, 406048281, 385292021, 364338954, 343199782, 321885303,
        300406405, 278774059, 256999315, 235093295, 213067190, 190932250, 168699781,
        146381140, 123987728, 101530983, 79022376, 56473403, 33895585, 11300452>>,
      <<1000000000, 999748234, 998993066, 997734875, 995974293, 993712209, 990949761,
        987688340, 983929588, 979675398, 974927912, 969689520, 963962860, 957750816,
        951056516, 943883330, 936234870, 928114988, 919527772, 910477546, 900968867,
        891006524, 880595531, 869741133, 858448793, 846724199, 834573253, 822002075,
        809016994, 795624548, 781831482, 767644740, 753071466, 738118997, 722794863,
        707106781, 691062648, 674670545, 657938725, 640875613, 623489801, 605790043,
        587785252, 569484493, 550896981, 532032076, 512899277, 493508218, 473868662,
        453990499, 433883739, 413558504, 393025031, 372293658, 351374824, 330279061,
        309016994, 287599327, 266036845, 244340406, 222520933, 200589415, 178556894,
        156434465, 134233265, 111964476, 89639308, 67269005, 44864830, 22438064,
        0>>,
      <<1000000000, 999751793, 999007296, 997766878, 996031156, 993800990, 991077488,
        987862001, 984156127, 979961705, 975280816, 970115784, 964469175, 958343789,
        951742669, 944669091, 937126567, 929118840, 920649886, 911723909, 902345341,
        892518835, 882249272, 871541748, 860401579, 848834295, 836845638, 824441560,
        811628218, 798411972, 784799385, 770797212, 756412405, 741652105, 726523639,
        711034517, 695192427, 679005235, 662480975, 645627851, 628454229, 610968633,
        593179744, 575096393, 556727556, 538082353, 519170038, 500000000, 480581755,
        460924943, 441039321, 420934762, 400621245, 380108854, 359407772, 338528276,
        317480729, 296275580, 274923357, 253434657, 231820150, 210090563, 188256685,
        166329354, 144319455, 122237913, 100095691, 77903780, 55673197, 33414977,
        11140169>>,
      <<1000000000, 999755276, 999021226, 997798208, 996086822, 993887904, 991202530,
        988032017, 984377914, 980242010, 975626331, 970533135, 964964914, 958924395,
        952414533, 945438515, 937999756, 930101895, 921748800, 912944557, 903693477,
        894000087, 883869132, 873305570, 862314572, 850901517, 839071991, 826831783,
        814186886, 801143488, 787707973, 773886917, 759687084, 745115425, 730179072,
        714885335, 699241701, 683255824, 666935530, 650288807, 633323803, 616048820,
        598472314, 580602887, 562449287, 544020398, 525325240, 506372963, 487172843,
        467734279, 448066783, 428179983, 408083612, 387787505, 367301597, 346635915,
        325800572, 304805768, 283661778, 262378950, 240967702, 219438513, 197801920,
        176068515, 154248932, 132353854, 110393995, 88380104, 66322956, 44233346,
        22122087, 0>>,
      <<1000000000, 999758687, 999034865, 997828884, 996141325, 993973003, 991324964,
        988198487, 984595080, 980516482, 975964662, 970941817, 965450370, 959492973,
        953072500, 946192050, 938854944, 931064722, 922825145, 914140188, 905014045,
        895451119, 885456025, 875033588, 864188837, 852927007, 841253532, 829174047,
        816694382, 803820559, 790558792, 776915481, 762897211, 748510748, 733763034,
        718661187, 703212496, 687424417, 671304570, 654860733, 638100845, 621032992,
        603665414, 586006491, 568064746, 549848839, 531367561, 512629831, 493644694,
        474421310, 454968959, 435297029, 415415013, 395332507, 375059203, 354604887,
        333979429, 313192784, 292254984, 271176135, 249966409, 228636043, 207195331,
        185654622, 164024311, 142314838, 120536680, 98700348, 76816380, 54895339,
        32947805, 10984368>>,
      <<1000000000, 999762027, 999048221, 997858923, 996194698, 994056338, 991444861,
        988361510, 984807753, 980785280, 976296007, 971342069, 965925826, 960049854,
        953716950, 946930129, 939692620, 932007869, 923879532, 915311479, 906307787,
        896872741, 887010833, 876726755, 866025403, 854911870, 843391445, 831469612,
        819152044, 806444604, 793353340, 779884483, 766044443, 751839807, 737277336,
        722363962, 707106781, 691513055, 675590207, 659345815, 642787609, 625923472,
        608761429, 591309648, 573576436, 555570233, 537299608, 518773258, 500000000,
        480988768, 461748613, 442288690, 422618261, 402746689, 382683432, 362438038,
        342020143, 321439465, 300705799, 279829014, 258819045, 237685892, 216439613,
        195090322, 173648177, 152123386, 130526192, 108866874, 87155742, 65403129,
        43619387, 21814885, 0>>,
      <<1000000000, 999765298, 999061302, 997888343, 996246971, 994137957, 991562290,
        988521181, 985016055, 981048559, 976620555, 971734122, 966391552, 960595355,
        954348250, 947653171, 940513259, 932931867, 924912552, 916459081, 907575419,
        898265738, 888534408, 878385996, 867825266, 856857176, 845486873, 833719696,
        821561167, 809016994, 796093065, 782795447, 769130382, 755104284, 740723737,
        725995491, 710926461, 695523718, 679794494, 663746172, 647386284, 630722511,
        613762674, 596514735, 578986789, 561187065, 543123917, 524805825, 506241386,
        487439316, 468408440, 449157691, 429696106, 410032820, 390177063, 370138155,
        349925503, 329548594, 309016994, 288340340, 267528338, 246590757, 225537426,
        204378226, 183123090, 161781996, 140364961, 118882037, 97343310, 75758890,
        54138908, 32493513, 10832866>>,
      <<1000000000, 999768501, 999074115, 997917160, 996298174, 994217906, 991677319,
        988677590, 985220106, 981306470, 976938492, 972118196, 966847813, 961129783,
        954966754, 948361580, 941317317, 933837228, 925924777, 917583626, 908817637,
        899630869, 890027576, 880012203, 869589389, 858763958, 847540922, 835925479,
        823923005, 811539059, 798779372, 785649855, 772156584, 758305808, 744103939,
        729557554, 714673386, 699458327, 683919421, 668063864, 651898995, 635432300,
        618671403, 601624063, 584298173, 566701756, 548842958, 530730048, 512371412,
        493775550, 474951072, 455906693, 436651231, 417193602, 397542814, 377707965,
        357698238, 337522899, 317191288, 296712819, 276096973, 255353295, 234491389,
        213520915, 192451581, 171293144, 150055398, 128748177, 107381346, 85964798,
        64508449, 43022233, 21516097, 0>>,
      <<1000000000, 999771640, 999086667, 997945392, 996348338, 994296232, 991790013,
        988830826, 985420021, 981559156, 977249996, 972494507, 967294863, 961653436,
        955572805, 949055747, 942105236, 934724450, 926916757, 918685724, 910035111,
        900968867, 891491135, 881606242, 871318704, 860633218, 849554665, 838088104,
        826238774, 814012085, 801413621, 788449138, 775124555, 761445958, 747419595,
        733051871, 718349350, 703318744, 687966921, 672300890, 656327807, 640054966,
        623489801, 606639877, 589512889, 572116660, 554459134, 536548377, 518392568,
        500000000, 481379072, 462538290, 443486258, 424231677, 404783343, 385150136,
        365341024, 345365054, 325231349, 304949106, 284527586, 263976118, 243304086,
        222520933, 201636151, 180659278, 159599895, 138467619, 117272102, 96023025,
        74730093, 53403030, 32051577, 10685485>>,
      <<1000000000, 999774716, 999098966, 997973054, 996397488, 994372978, 991900435,
        988980974, 985615910, 981806759, 977555238, 972863263, 967732946, 962166601,
        956166734, 949736050, 942877445, 935594010, 927889027, 919765967, 911228490,
        902280443, 892925858, 883168949, 873014113, 862465925, 851529137, 840208678,
        828509649, 816437319, 803997130, 791194685, 778035754, 764526265, 750672305,
        736480116, 721956093, 707106781, 691938868, 676459191, 660674723, 644592576,
        628219997, 611564362, 594633176, 577434067, 559974786, 542263197, 524307283,
        506115133, 487694943, 469055014, 450203744, 431149627, 411901248, 392467279,
        372856477, 353077678, 333139794, 313051808, 292822771, 272461797, 251978061,
        231380792, 210679269, 189882822, 169000820, 148042671, 127017819, 105935737,
        84805924, 63637900, 42441203, 21225383, 0>>,
      <<1000000000, 999777729, 999111018, 998000161, 996445653, 994448185, 992008644,
        989128116, 985807881, 982049414, 977854386, 973224663, 968162302, 962669555,
        956748862, 950402855, 943634356, 936446374, 928842103, 920824925, 912398403,
        903566283, 894332491, 884701133, 874676489, 864263017, 853465345, 842288273,
        830736770, 818815971, 806531175, 793887844, 780891597, 767548213, 753863623,
        739843910, 725495306, 710824191, 695837086, 680540653, 664941692, 649047138,
        632864056, 616399641, 599661211, 582656208, 565392191, 547876834, 530117923,
        512123354, 493901126, 475459338, 456806190, 437949973, 418899069, 399661948,
        380247162, 360663340, 340919188, 321023485, 300985073, 280812861, 260515817,
        240102963, 219583374, 198966171, 178260519, 157475624, 136620724, 115705091,
        94738022, 73728839, 52686879, 31621499, 10542061>>,
      <<1000000000, 999780683, 999122830, 998026728, 996492859, 994521895, 992114701,
        989272332, 985996037, 982287250, 978147600, 973578902, 968583161, 963162566,
        957319497, 951056516, 944376370, 937281989, 929776485, 921863151, 913545457,
        904827052, 895711760, 886203579, 876306680, 866025403, 855364260, 844327925,
        832921240, 821149209, 809016994, 796529918, 783693457, 770513242, 756995055,
        743144825, 728968627, 714472679, 699663340, 684547105, 669130606, 653420603,
        637423989, 621147780, 604599114, 587785252, 570713567, 553391549, 535826794,
        518027009, 500000000, 481753674, 463296035, 444635179, 425779291, 406736643,
        387515586, 368124552, 348572047, 328866646, 309016994, 289031796, 268919820,
        248689887, 228350870, 207911690, 187381314, 166768746, 146083028, 125333233,
        104528463, 83677843, 62790519, 41875653, 20942419, 0>>,
      <<1000000000, 999783578, 999134408, 998052769, 996539130, 994594147, 992218661,
        989413700, 986180478, 982520396, 978435036, 973926168, 968995743, 963645895,
        957878940, 951697375, 945103873, 938101291, 930692657, 922881181, 914670242,
        906063394, 897064364, 887677045, 877905502, 867753964, 857226825, 846328641,
        835064131, 823438168, 811455787, 799122172, 786442664, 773422749, 760068064,
        746384389, 732377647, 718053900, 703419349, 688480328, 673243303, 657714870,
        641901750, 625810787, 609448946, 592823310, 575941074, 558809547, 541436143,
        523828382, 505993886, 487940374, 469675660, 451207651, 432544340, 413693805,
        394664206, 375463779, 356100835, 336583756, 316920989, 297121045, 277192494,
        257143962, 236984128, 216721717, 196365499, 175924286, 155406925, 134822297,
        114179313, 93486907, 72754036, 51989674, 31202808, 10402437>>,
      <<1000000000, 999786416, 999145758, 998078298, 996584493, 994664980, 992320579,
        989552293, 986361303, 982748973, 978716845, 974266642, 969400265, 964119794,
        958427482, 952325762, 945817241, 938904699, 931591088, 923879532, 915773326,
        907275933, 898390981, 889122268, 879473751, 869449552, 859053954, 848291397,
        837166478, 825683949, 813848717, 801665835, 789140509, 776278088, 763084068,
        749564083, 735723910, 721569461, 707106781, 692342049, 677281571, 661931782,
        646299237, 630390616, 614212712, 597772438, 581076815, 564132976, 546948158,
        529529702, 511885049, 494021735, 475947393, 457669741, 439196588, 420535826,
        401695424, 382683432, 363507970, 344177230, 324699469, 305083007, 285336224,
        265467555, 245485487, 225398556, 205215342, 184944467, 164594590, 144174404,
        123692631, 103158021, 82579345, 61965394, 41324974, 20666901, 0>>,
      <<1000000000, 999789199, 999156886, 998103328, 996628969, 994734429, 992420509,
        989688183, 986538604, 982973099, 978993172, 974600500, 969796936, 964584504,
        958965402, 952942000, 946516836, 939692620, 932472229, 924858706, 916855262,
        908465271, 899692270, 890539958, 881012194, 871112994, 860846531, 850217135,
        839229287, 827887618, 816196912, 804162096, 791788244, 779080574, 766044443,
        752685346, 739008917, 725020920, 710727255, 696133945, 681247146, 666073131,
        650618300, 634889167, 618892364, 602634636, 586122836, 569363927, 552364972,
        535133141, 517675696, 500000000, 482113502, 464023745, 445738355, 427265042,
        408611593, 389785873, 370795819, 351649437, 332354799, 312920040, 293353354,
        273662990, 253857249, 233944481, 213933083, 193831490, 173648177, 153391654,
        133070462, 112693166, 92268359, 71804651, 51310671, 30795058, 10266462>>,
      <<1000000000, 999791928, 999167799, 998127873, 996672582, 994802532, 992518502,
        989821441, 986712473, 983192890, 979264158, 974927912, 970185955, 965040262,
        959492973, 953546398, 947203010, 940465450, 933336521, 925819190, 917916585,
        909631995, 900968867, 891930808, 882521576, 872745089, 862605415, 852106773,
        841253532, 830050209, 818501466, 806612109, 794387085, 781831482, 768950525,
        755749574, 742234123, 728409795, 714282345, 699857650, 685141714, 670140661,
        654860733, 639308289, 623489801, 607411852, 591081132, 574504437, 557688666,
        540640817, 523367983, 505877353, 488176206, 470271906, 452171907, 433883739,
        415415013, 396773414, 377966701, 359002699, 339889301, 320634460, 301246189,
        281732556, 262101682, 242361737, 222520933, 202587530, 182569820, 162476136,
        142314838, 122094316, 101822986, 81509283, 61161660, 40788586, 20398537,
        0>>,
      <<1000000000, 999794604, 999178501, 998151944, 996715354, 994869323, 992614607,
        989952134, 986882997, 983408457, 979529941, 975249042, 970567519, 965487295,
        960010458, 954139256, 947876102, 941223568, 934184388, 926761452, 918957811,
        910776670, 902221389, 893295484, 884002620, 874346616, 864331437, 853961198,
        843240160, 832172725, 820763441, 809016994, 796938210, 784532050, 771803611,
        758758122, 745400942, 731737557, 717773580, 703514748, 688966919, 674136067,
        659028286, 643649782, 628006872, 612105982, 595953644, 579556494, 562921266,
        546054795, 528964010, 511655930, 494137667, 476416416, 458499457, 440394151,
        422107934, 403648319, 385022889, 366239295, 347305252, 328228540, 309016994,
        289678506, 270221021, 250652532, 230981076, 211214736, 191361630, 171429914,
        151427777, 131363434, 111245129, 91081124, 70879705, 50649168, 30397826,
        10133996>>,
      <<1000000000, 999797228, 999188998, 998175554, 996757308, 994934835, 992708874,
        990080327, 987050262, 983619906, 979790652, 975564050, 970941817, 965925826,
        960518111, 954720866, 948536441, 941967345, 935016242, 927685950, 919979443,
        911899845, 903450434, 894634636, 885456025, 875918325, 866025403, 855781272,
        845190085, 834256138, 822983865, 811377838, 799442763, 787183480, 774604961,
        761712308, 748510748, 735005635, 721202447, 707106781, 692724353, 678060996,
        663122658, 647915395, 632445375, 616718872, 600742264, 584522029, 568064746,
        551377089, 534465826, 517337814, 500000000, 482459414, 464723172, 446798464,
        428692561, 410412805, 391966609, 373361455, 354604887, 335704511, 316667993,
        297503053, 278217463, 258819045, 239315664, 219715230, 200025693, 180255037,
        160411280, 140502470, 120536680, 100522007, 80466568, 60378497, 40265940,
        20137053, 0>>,
      <<1000000000, 999799803, 999199295, 998198714, 996798462, 994999100, 992801347,
        990206084, 987214350, 983827343, 980046419, 975873091, 971309031, 966356067,
        961016180, 955291510, 949184348, 942697140, 935832483, 928593126, 920981967,
        913002054, 904656581, 895948891, 886882470, 877460947, 867688096, 857567829,
        847104198, 836301393, 825163739, 813695696, 801901855, 789786939, 777355798,
        764613409, 751564875, 738215420, 724570389, 710635245, 696415569, 681917053,
        667145502, 652106831, 636807062, 621252320, 605448833, 589402929, 573121032,
        556609662, 539875430, 522925035, 505765265, 488402991, 470845164, 453098814,
        435171046, 417069039, 398800041, 380371367, 361790394, 343064564, 324201373,
        305208374, 286093172, 266863420, 247526818, 228091109, 208564073, 188953530,
        169267331, 149513359, 129699523, 109833757, 89924013, 69978265, 50004498,
        30010709, 10004905>>,
      <<1000000000, 999802329, 999209397, 998221436, 996838839, 995062150, 992892073,
        990329466, 987375341, 984030867, 980297366, 976176314, 971669340, 966778225,
        961504904, 955851461, 949820131, 943413299, 936633498, 929483407, 921965854,
        914083811, 905840393, 897238860, 888282612, 878975190, 869320274, 859321680,
        848983362, 838309406, 827304032, 815971592, 804316565, 792343559, 780057308,
        767462668, 754564620, 741368261, 727878810, 714101599, 700042074, 685705795,
        671098428, 656225749, 641093637, 625708075, 610075146, 594201028, 578092000,
        561754428, 545194772, 528419578, 511435479, 494249188, 476867501, 459297289,
        441545498, 423619146, 405525320, 387271174, 368863924, 350310847, 331619278,
        312796607, 293850274, 274787770, 255616632, 236344438, 216978808, 197527397,
        177997895, 158398024, 138735531, 119018191, 99253798, 79450166, 59615125,
        39756515, 19882187, 0>>,
      <<1000000000, 999804808, 999219309, 998243731, 996878456, 995124016, 992981096,
        990450532, 987533313, 984230577, 980543615, 976473864, 972022914, 967192502,
        961984514, 956400984, 950444090, 944116159, 937419661, 930357209, 922931562,
        915145617, 907002414, 898505133, 889657090, 880461740, 870922673, 861043611,
        850828413, 840281065, 829405685, 818206519, 806687939, 794854441, 782710645,
        770261292, 757511242, 744465471, 731129074, 717507257, 703605336, 689428739,
        674983001, 660273761, 645306760, 630087843, 614622950, 598918118, 582979479,
        566813254, 550425754, 533823377, 517012605, 500000000, 482792202, 465395931,
        447817977, 430065202, 412144537, 394062977, 375827582, 357445469, 338923817,
        320269853, 301490862, 282594174, 263587166, 244477257, 225271909, 205978618,
        186604917, 167158368, 147646564, 128077120, 108457677, 88795895, 69099448,
        49376025, 29633327, 9879061>>,
      <<1000000000, 999807240, 999229036, 998265610, 996917333, 995184726, 993068456,
        990569340, 987688340, 984426568, 980785280, 976765881, 972369920, 967599092,
        962455236, 956940335, 951056516, 944806046, 938191335, 931214934, 923879532,
        916187957, 908143173, 899748284, 891006524, 881921264, 872496007, 862734385,
        852640164, 842217233, 831469612, 820401443, 809016994, 797320653, 785316930,
        773010453, 760405965, 747508326, 734322509, 720853596, 707106781, 693087362,
        678800745, 664252437, 649448048, 634393284, 619093949, 603555941, 587785252,
        571787960, 555570233, 539138322, 522498564, 505657373, 488621241, 471396736,
        453990499, 436409240, 418659737, 400748833, 382683432, 364470499, 346117057,
        327630179, 309016994, 290284677, 271440449, 252491577, 233445363, 214309153,
        195090322, 175796279, 156434465, 137012341, 117537397, 98017140, 78459095,
        58870803, 39259815, 19633692, 0>>,
      <<1000000000, 999809627, 999238582, 998287082, 996955489, 995244310, 993154197,
        990685946, 987840495, 984618930, 981022475, 977052502, 972710520, 967998184,
        962917287, 957469764, 951657690, 945483276, 938948875, 932056973, 924810195,
        917211301, 909263183, 900968867, 892331512, 883354407, 874040968, 864394743,
        854419404, 844118749, 833496700, 822557301, 811304718, 799743234, 787877252,
        775711290, 763249980, 750498066, 737460404, 724141957, 710547797, 696683099,
        682553143, 668163308, 653519073, 638626014, 623489801, 608116198, 592511058,
        576680322, 560630017, 544366256, 527895230, 511223211, 494356545, 477301656,
        460065037, 442653251, 425072926, 407330757, 389433499, 371387966, 353201028,
        334879612, 316430691, 297861291, 279178482, 260389377, 241501131, 222520933,
        203456013, 184313627, 165101065, 145825641, 126494695, 107115587, 87695695,
        68242413, 48763148, 29265317, 9756344>>,
      <<1000000000, 999811970, 999247952, 998308158, 996992941, 995302795, 993238357,
        990800403, 987989849, 984807753, 981255310, 977333858, 973044870, 968389960,
        963370878, 957989512, 952247885, 946148156, 939692620, 932883704, 925723969,
        918216106, 910362940, 902167424, 893632640, 884761797, 875558231, 866025403,
        856166899, 845986425, 835487811, 824675004, 813552070, 802123192, 790392669,
        778364911, 766044443, 753435896, 740544013, 727373641, 713929734, 700217347,
        686241637, 672007860, 657521368, 642787609, 627812124, 612600545, 597158591,
        581492071, 565606875, 549508978, 533204432, 516699371, 500000000, 483112599,
        466043519, 448799180, 431386065, 413810724, 396079766, 378199858, 360177724,
        342020143, 323733942, 305325997, 286803232, 268172612, 249441144, 230615870,
        211703872, 192712260, 173648177, 154518792, 135331299, 116092914, 96810870,
        77492420, 58144828, 38775371, 19391331, 0>>,
      <<1000000000, 999814270, 999257150, 998328847, 997029706, 995360208, 993320975,
        990912764, 988136470, 984993122, 981483891, 977610077, 973373122, 968774598,
        963816215, 958499812, 952827366, 946800984, 940422904, 933695495, 926621256,
        919202816, 911442929, 903344478, 894910471, 886144042, 877048447, 867627064,
        857883392, 847821053, 837443782, 826755435, 815759982, 804461508, 792864209,
        780972393, 768790478, 756322989, 743574556, 730549916, 717253907, 703691467,
        689867634, 675787544, 661456426, 646879604, 632062493, 617010596, 601729505,
        586224896, 570502529, 554568243, 538427957, 522087668, 505553444, 488831428,
        471927831, 454848932, 437601076, 420190668, 402624177, 384908127, 367049099,
        349053728, 330928698, 312680741, 294316636, 275843204, 257267308, 238595847,
        219835758, 200994009, 182077599, 163093554, 144048927, 124950792, 105806242,
        86622390, 67406361, 48165293, 28906334, 9636638>>,
      <<1000000000, 999816528, 999266181, 998349159, 997065801, 995416576, 993402089,
        991023081, 988280423, 985175123, 981708319, 977881285, 973695423, 969152271,
        964253495, 959000893, 953396392, 947442048, 941140047, 934492702, 927502451,
        920171859, 912503616, 904500536, 896165556, 887501735, 878512250, 869200402,
        859569606, 849623398, 839365426, 828799454, 817929360, 806759133, 795292871,
        783534781, 771489179, 759160485, 746553221, 733672015, 720521593, 707106781,
        693432500, 679503770, 665325700, 650903493, 636242442, 621347926, 606225410,
        590880445, 575318660, 559545765, 543567550, 527389875, 511018679, 494459968,
        477719818, 460804372, 443719837, 426472483, 409068637, 391514686, 373817071,
        355982287, 338016878, 319927436, 301720598, 283403046, 264981502, 246462724,
        227853508, 209160684, 190391109, 171551671, 152649284, 133690883, 114683425,
        95633885, 76549252, 57436531, 38302733, 19154881, 0>>,
      <<1000000000, 999818745, 999275047, 998369103, 997101242, 995471922, 993481735,
        991131402, 988421774, 985353835, 981928697, 978147600, 974011916, 969523145,
        964682912, 959492973, 953955209, 948071629, 941844363, 935275671, 928367933,
        921123653, 913545457, 905636093, 897398428, 888835448, 879950257, 870746077,
        861226243, 851394207, 841253532, 830807896, 820061085, 809016994, 797679627,
        786053094, 774141610, 761949493, 749481162, 736741137, 723734038, 710464578,
        696937568, 683157912, 669130606, 654860733, 640353468, 625614069, 610647879,
        595460324, 580056909, 564443218, 548624912, 532607724, 516397461, 500000000,
        483421283, 466667323, 449744191, 432658023, 415415013, 398021410, 380483522,
        362807705, 345000367, 327067963, 309016994, 290854004, 272585576, 254218334,
        235758935, 217214072, 198590466, 179894870, 161134060, 142314838, 123444025,
        104528463, 85575008, 66590531, 47581915, 28556050, 9519833>>,
      <<1000000000, 999820922, 999283754, 998388688, 997136045, 995526272, 993559947,
        991237774, 988560585, 985529338, 982145119, 978409140, 974322740, 969887381,
        965104653, 959976267, 954504062, 948689997, 942536154, 936044737, 929218072,
        922058603, 914568894, 906751628, 898609604, 890145740, 881363066, 872264727,
        862853983, 853134203, 843108870, 832781573, 822156011, 811235991, 800025422,
        788528321, 776748805, 764691092, 752359502, 739758451, 726892451, 713766112,
        700384134, 686751311, 672872524, 658752745, 644397030, 629810522, 614998444,
        599966101, 584718878, 569262235, 553601708, 537742906, 521691509, 505453265,
        489033992, 472439568, 455675938, 438749105, 421665133, 404430139, 387050297,
        369531830, 351881015, 334104171, 316207666, 298197911, 280081354, 261864484,
        243553827, 225155940, 206677412, 188124862, 169504934, 150824297, 132089641,
        113307677, 94485131, 75628745, 56745273, 37841476, 18924127, 0>>,
      <<1000000000, 999823060, 999292305, 998407923, 997170225, 995579650, 993636761,
        991342246, 988696916, 985701708, 982357681, 978666019, 974628028, 970245138,
        965518899, 960450983, 955043185, 949297418, 943215714, 936800228, 930053227,
        922977102, 915574354, 907847605, 899799588, 891433151, 882751256, 873756974,
        864453488, 854844091, 844932183, 834721272, 824214971, 813416999, 802331175,
        790961424, 779311769, 767386332, 755189334, 742725091, 729998013, 717012605,
        703773462, 690285268, 676552798, 662580910, 648374549, 633938742, 619278598,
        604399305, 589306128, 574004408, 558499561, 542797073, 526902500, 510821468,
        494559668, 478122853, 461516842, 444747509, 427820790, 410742674, 393519206,
        376156479, 358660639, 341037877, 323294428, 305436573, 287470630, 269402958,
        251239950, 232988034, 214653668, 196243341, 177763567, 159220887, 140621862,
        121973074, 103281122, 84552622, 65794200, 47012495, 28214153, 9405827>>,
      <<1000000000, 999825160, 999300704, 998426815, 997203797, 995632078, 993712209,
        991444861, 988830826, 985871018, 982566473, 978918345, 974927912, 970596567,
        965925826, 960917321, 955572805, 949894146, 943883330, 937542458, 930873748,
        923879532, 916562255, 908924477, 900968867, 892698209, 884115393, 875223421,
        866025403, 856524555, 846724199, 836627762, 826238774, 815560868, 804597779,
        793353340, 781831482, 770036235, 757971723, 745642164, 733051871, 720205246,
        707106781, 693761056, 680172737, 666346577, 652287411, 638000153, 623489801,
        608761429, 593820185, 578671296, 563320058, 547771839, 532032076, 516106273,
        500000000, 483718887, 467268628, 450654975, 433883739, 416960782, 399892024,
        382683432, 365341024, 347870864, 330279061, 312571767, 294755174, 276835511,
        258819045, 240712075, 222520933, 204251981, 185911607, 167506223, 149042266,
        130526192, 111964476, 93363608, 74730093, 56070447, 37391194, 18698866,
        0>>,
      <<1000000000, 999827223, 999308955, 998445372, 997236775, 995683580, 993786324,
        991545663, 988962371, 986037341, 982771584, 979166227, 975222517, 970941817,
        966325606, 961375478, 956093145, 950480432, 944539278, 938271736, 931679972,
        924766264, 917533001, 909982683, 902117917, 893941423, 885456025, 876664656,
        867570353, 858176259, 848485621, 838501786, 828228205, 817668428, 806826104,
        795704979, 784308896, 772641793, 760707703, 748510748, 736055143, 723345193,
        710385289, 697179910, 683733619, 670051062, 656136967, 641996142, 627633475,
        613053927, 598262537, 583264416, 568064746, 552668781, 537081839, 521309308,
        505356637, 489229338, 472932986, 456473210, 439855699, 423086195, 406170492,
        389114436, 371923921, 354604887, 337163318, 319605241, 301936724, 284163872,
        266292827, 248329764, 230280889, 212152441, 193950683, 175681904, 157352419,
        138968560, 120536680, 102063148, 83554348, 65016676, 46456537, 27880345,
        9294518>>,
      <<1000000000, 999829250, 999317060, 998463603, 997269173, 995734176, 993859136,
        991644695, 989091608, 986200747, 982973099, 979409767, 975511967, 971281031,
        966718404, 961825643, 956604419, 951056516, 945183828, 938988360, 932472229,
        925637659, 918486985, 911022649, 903247199, 895163291, 886773685, 878081248,
        869088946, 859799851, 850217135, 840344071, 830184030, 819740482, 809016994,
        798017227, 786744938, 775203976, 763398282, 751331889, 739008917, 726433574,
        713610154, 700543037, 687236685, 673695643, 659924534, 645928062, 631711006,
        617278221, 602634636, 587785252, 572735140, 557489439, 542053356, 526432162,
        510631193, 494655843, 478511569, 462203883, 445738355, 429120608, 412356317,
        395451206, 378411050, 361241666, 343948918, 326538712, 309016994, 291389746,
        273662990, 255842777, 237935195, 219946357, 201882409, 183749517, 165553876,
        147301698, 128999216, 110652681, 92268359, 73852527, 55411474, 36951499,
        18478904, 0>>,
      <<1000000000, 999831241, 999325023, 998481516, 997301005, 995783888, 993930677,
        991741998, 989218589, 986361303, 983171103, 979649067, 975796382, 971614350,
        967104382, 962268000, 957106836, 951622633, 945817241, 939692620, 933250837,
        926494067, 919424589, 912044790, 904357160, 896364295, 888068892, 879473751,
        870581772, 861395958, 851919408, 842155321, 832106993, 821777815, 811171273,
        800290947, 789140509, 777723723, 766044443, 754106609, 741914252, 729471487,
        716782513, 703851612, 690683150, 677281571, 663651398, 649797232, 635723748,
        621435696, 606937900, 592235252, 577332715, 562235318, 546948158, 531476393,
        515825246, 500000000, 484005995, 467848630, 451533358, 435065686, 418451172,
        401695424, 384804097, 367782892, 350637555, 333373871, 315997668, 298514811,
        280931199, 263252769, 245485487, 227635349, 209708380, 191710631, 173648177,
        155527114, 137353557, 119133642, 100873517, 82579345, 64257301, 45913570,
        27554342, 9185814>>,
      <<1000000000, 999833198, 999332848, 998499117, 997332283, 995832736, 994000975,
        991837611, 989343368, 986519075, 983365676, 979884223, 976075877, 971941908,
        967483697, 962702729, 957600599, 952179011, 946439773, 940384798, 934016108,
        927335827, 920346183, 913049508, 905448237, 897544905, 889342148, 880842704,
        872049408, 862965192, 853593089, 843936223, 833997817, 823781187, 813289740,
        802526977, 791496488, 780201953, 768647139, 756835902, 744772182, 732460003,
        719903473, 707106781, 694074195, 680810063, 667318811, 653604938, 639673021,
        625527706, 611173714, 596615831, 581858915, 566907889, 551767740, 536443520,
        520940340, 505263372, 489417847, 473409051, 457242323, 440923057, 424456698,
        407848739, 391104720, 374230227, 357230889, 340112378, 322880404, 305540716,
        288099099, 270561371, 252933382, 235221014, 217430175, 199566801, 181636850,
        163646305, 145601167, 127507456, 109371208, 91198473, 72995314, 54767804,
        36522023, 18264058, 0>>,
      <<1000000000, 999835120, 999340537, 998516414, 997363021, 995880740, 994070059,
        991931575, 989465993, 986674127, 983556898, 980115332, 976350565, 972263838,
        967856500, 963130003, 958085906, 952725872, 947051669, 941065168, 934768343,
        928163271, 921252129, 914037196, 906520853, 898705576, 890593945, 882188632,
        873492411, 864508148, 855238806, 845687443, 835857207, 825751341, 815373176,
        804726135, 793813729, 782639557, 771207303, 759520736, 747583712, 735400166,
        722974115, 710309658, 697410971, 684282306, 670927994, 657352438, 643560114,
        629555571, 615343427, 600928369, 586315149, 571508588, 556513566, 541335030,
        525977984, 510447492, 494748677, 478886713, 462866833, 446694319, 430374504,
        413912769, 397314543, 380585300, 363730555, 346755867, 329666833, 312469089,
        295168306, 277770189, 260280475, 242704931, 225049353, 207319563, 189521408,
        171660757, 153743499, 135775543, 117762814, 99711252, 81626809, 63515449,
        45383144, 27235874, 9079622>>,
      <<1000000000, 999837010, 999348095, 998533413, 997393231, 995927920, 994137957,
        992023926, 989586516, 986826522, 983744843, 980342485, 976620555, 972580268,
        968222940, 963549992, 958562947, 953263431, 947653171, 941733996, 935507835,
        928976719, 922142776, 915008234, 907575419, 899846753, 891824757, 883512044,
        874911325, 866025403, 856857176, 847409631, 837685848, 827688998, 817422338,
        806889216, 796093065, 785037405, 773725839, 762162055, 750349822, 738292990,
        725995491, 713461333, 700694602, 687699458, 674480140, 661040955, 647386284,
        633520580, 619448361, 605174215, 590702795, 576038818, 561187065, 546152377,
        530939654, 515553857, 500000000, 484283153, 468408440, 452381036, 436206166,
        419889101, 403435161, 386849711, 370138155, 353305942, 336358559, 319301530,
        302140415, 284880809, 267528338, 250088658, 232567455, 214970440, 197303349,
        179571941, 161781996, 143939314, 126049711, 108119018, 90153081, 72157755,
        54138908, 36102413, 18054149, 0>>,
      <<1000000000, 999838867, 999355523, 998550122, 997422925, 995974293, 994204695,
        992114701, 989704983, 986976319, 983929588, 980565772, 976885954, 972891321,
        968583161, 963962860, 959031909, 953791896, 948244511, 942391540, 936234870,
        929776485, 923018467, 915962993, 908612337, 900968867, 893035048, 884813436,
        876306680, 867517521, 858448793, 849103418, 839484407, 829594860, 819437965,
        809016994, 798335306, 787396343, 776203631, 764760776, 753071466, 741139468,
        728968627, 716562866, 703926182, 691062648, 677976410, 664671684, 651152758,
        637423989, 623489801, 609354685, 595023196, 580499952, 565789633, 550896981,
        535826794, 520583930, 505173300, 489599871, 473868662, 457984742, 441953229,
        425779291, 409468140, 393025031, 376455265, 359764181, 342957157, 326039611,
        309016994, 291894792, 274678522, 257373734, 239986003, 222520933, 204984153,
        187381314, 169718089, 152000169, 134233265, 116423103, 98575422, 80695973,
        62790519, 44864830, 26924682, 8975858>>,
      <<1000000000, 999840693, 999362825, 998566548, 997452114, 996019880, 994270301,
        992203936, 989821441, 987123578, 984111204, 980785280, 977146865, 973197120,
        968937301, 964368767, 959492973, 954311473, 948825916, 943038052, 936949724,
        930562873, 923879532, 916901832, 909631995, 902072338, 894225269, 886093289,
        877678989, 868985049, 860014240, 850769419, 841253532, 831469612, 821420775,
        811110222, 800541240, 789717196, 778641538, 767317794, 755749574, 743940562,
        731894522, 719615290, 707106781, 694372978, 681417939, 668245792, 654860733,
        641267028, 627469007, 613471066, 599277666, 584893328, 570322636, 555570233,
        540640817, 525539146, 510270033, 494838340, 479248986, 463506937, 447617210,
        431584865, 415415013, 399112803, 382683432, 366132133, 349464179, 332684882,
        315799587, 298813675, 281732556, 264561675, 247306500, 229972531, 212565289,
        195090322, 177553196, 159959499, 142314838, 124624833, 106895121, 89131351,
        71339183, 53524285, 35692333, 17849010, 0>>,
      <<1000000000, 999842488, 999370004, 998582695, 997480810, 996064697, 994334800,
        992291665, 989935936, 987268354, 984289761, 981001094, 977403389, 973497781,
        969285498, 964767868, 959946315, 954822357, 949397608, 943673777, 937652668,
        931336177, 924726294, 917825101, 910634772, 903157573, 895395859, 887352075,
        879028754, 870428520, 861554081, 852408233, 842993857, 833313919, 823371468,
        813169636, 802711637, 792000767, 781040397, 769833983, 758385053, 746697215,
        734774150, 722619615, 710237438, 697631521, 684805833, 671764416, 658511379,
        645050895, 631387205, 617524614, 603467489, 589220258, 574787410, 560173490,
        545383103, 530420908, 515291618, 500000000, 484550870, 468949096, 453199592,
        437307320, 421277286, 405114541, 388824175, 372411321, 355881148, 339238866,
        322489715, 305638972, 288691947, 271653977, 254530429, 237326699, 220048206,
        202700392, 185288724, 167818685, 150295779, 132725527, 115113463, 97465136,
        79786105, 62081940, 44358217, 26620521, 8874439>>,
      <<1000000000, 999844253, 999377062, 998598572, 997509025, 996108761, 994398216,
        992377922, 990048510, 987410705, 984465327, 981213296, 977655623, 973793418,
        969627882, 965160315, 960392106, 955324742, 949959800, 944298953, 938343963,
        932096685, 925559066, 918733141, 911621038, 904224970, 896547243, 888590248,
        880356462, 871848452, 863068867, 854020442, 844705995, 835128429, 825290725,
        815195949, 804847246, 794247837, 783401026, 772310192, 760978787, 749410343,
        737608463, 725576823, 713319171, 700839325, 688141172, 675228668, 662105834,
        648776760, 635245596, 621516557, 607593920, 593482022, 579185258, 564708082,
        550055003, 535230586, 520239448, 505086259, 489775740, 474312658, 458701832,
        442948123, 427056438, 411031729, 394878986, 378603241, 362209563, 345703060,
        329088873, 312372177, 295558178, 278652116, 261659255, 244584890, 227434338,
        210212941, 192926065, 175579093, 158177430, 140726496, 123231726, 105698571,
        88132491, 70538959, 52923454, 35291463, 17648480, 0>>,
      <<1000000000, 999845988, 999384002, 998614183, 997536768, 996152089, 994460573,
        992462740, 990159207, 987550682, 984637970, 981421966, 977903663, 974084143,
        969964583, 965546253, 960830512, 955818814, 950512702, 944913811, 939023864,
        932844678, 926378154, 919626285, 912591150, 905274916, 897679837, 889808253,
        881662588, 873245351, 864559134, 855606614, 846390547, 836913773, 827179211,
        817189859, 806948794, 796459171, 785724220, 774747248, 763531637, 752080841,
        740398387, 728487873, 716352969, 703997412, 691425008, 678639629, 665645214,
        652445766, 639045349, 625448092, 611658183, 597679869, 583517456, 569175307,
        554657839, 539969524, 525114886, 510098500, 494924993, 479599038, 464125356,
        448508712, 432753918, 416865826, 400849329, 384709362, 368450896, 352078938,
        335598533, 319014755, 302332714, 285557547, 268694422, 251748534, 234725101,
        217629367, 200466599, 183242082, 165961123, 148629044, 131251184, 113832895,
        96379544, 78896505, 61389164, 43862915, 26323154, 8775285>>,
      <<1000000000, 999847695, 999390827, 998629534, 997564050, 996194698, 994521895,
        992546151, 990268068, 987688340, 984807753, 981627183, 978147600, 974370064,
        970295726, 965925826, 961261695, 956304755, 951056516, 945518575, 939692620,
        933580426, 927183854, 920504853, 913545457, 906307787, 898794046, 891006524,
        882947592, 874619707, 866025403, 857167300, 848048096, 838670567, 829037572,
        819152044, 809016994, 798635510, 788010753, 777145961, 766044443, 754709580,
        743144825, 731353701, 719339800, 707106781, 694658370, 681998360, 669130606,
        656059028, 642787609, 629320391, 615661475, 601815023, 587785252, 573576436,
        559192903, 544639035, 529919264, 515038074, 500000000, 484809620, 469471562,
        453990499, 438371146, 422618261, 406736643, 390731128, 374606593, 358367949,
        342020143, 325568154, 309016994, 292371704, 275637355, 258819045, 241921895,
        224951054, 207911690, 190808995, 173648177, 156434465, 139173100, 121869343,
        104528463, 87155742, 69756473, 52335956, 34899496, 17452406, 0>>
    >>

\* The frames <<n, i>> at which the cosine is 1/2 or -1/2 and the double
\* that np.cos returns for the double 2 * np.pi * i / n is smaller than 0.5
\* in absolute value (0.4999999999999998 and the like).
BelowHalf ==
    {<<21, 7>>, <<24, 8>>, <<27, 9>>, <<30, 10>>, <<33, 11>>, <<36, 12>>,
     <<36, 30>>, <<39, 26>>, <<42, 14>>, <<42, 35>>, <<45, 15>>, <<48, 16>>,
     <<51, 34>>, <<54, 18>>, <<57, 19>>, <<60, 20>>, <<63, 42>>, <<66, 22>>,
     <<69, 23>>, <<72, 24>>, <<72, 60>>, <<75, 50>>, <<78, 13>>, <<78, 52>>,
     <<78, 65>>, <<81, 27>>, <<84, 28>>, <<84, 70>>, <<87, 58>>, <<90, 30>>,
     <<93, 31>>, <<96, 32>>, <<99, 33>>, <<102, 17>>, <<102, 68>>, <<105, 35>>,
     <<108, 36>>, <<111, 37>>, <<114, 38>>, <<117, 39>>, <<120, 40>>, <<123, 41>>,
     <<126, 21>>, <<126, 84>>, <<129, 43>>, <<132, 44>>, <<135, 45>>, <<138, 46>>,
     <<141, 94>>, <<144, 48>>, <<144, 120>>, <<147, 49>>, <<150, 25>>, <<150, 100>>,
     <<150, 125>>, <<153, 51>>, <<156, 26>>, <<156, 104>>, <<156, 130>>, <<159, 53>>,
     <<162, 54>>, <<162, 135>>, <<165, 110>>, <<168, 56>>, <<168, 140>>, <<171, 57>>,
     <<174, 29>>, <<174, 116>>, <<177, 59>>, <<180, 60>>}

\* max(abs(scale_x), 0.01), in units of 1 / CosScale, rounded down
AbsScaleX(i, n) ==
    LET c == IF <<n, i>> \in BelowHalf THEN CosScale \div 2 - 1
             ELSE CosHalfTurn[n - MinFrames + 1][FoldStep(i, n) + 1]
    IN  IF c > CosScale \div 100 THEN c ELSE CosScale \div 100

\* The frames <<i, n>> at 90 degrees for which the double 2 * np.pi * i / n
\* is one ulp above pi / 2 (1.5707963267948968): its cosine is below 0. For
\* every other n of 20..180 divisible by 4 the double is the one nearest to
\* pi / 2, just below it.
AboveQuarter == {<<13, 52>>, <<26, 104>>}

\* scale_x < 0: the back of the coin. The double np.cos returns at 90
\* degrees is above 0 but for the frames of AboveQuarter, at 270 degrees it
\* is below 0.
Back(i, n) == (n < 4 * i /\ 4 * i <= 3 * n) \/ <<i, n>> \in AboveQuarter

\* new_w = max(1, int(w * abs_scale_x)); the product w * c / CosScale is
\* taken in two parts to stay within 32 bits
NewWidth(w, i, n) ==
    LET c == AbsScaleX(i, n)
        scaled == (w * (c \div 100000) + (w * (c % 100000)) \div 100000) \div 10000
    IN  IF scaled >= 1 THEN scaled ELSE 1

\* the frames of range(total_frames) shifted by one (mutant)
GeneratedFramesFromOne(img, n) ==
    [k \in 1..n |-> [w |-> NewWidth(img.w, k, n), h |-> img.h, flip |-> Back(k, n)]]

\* the frames the loop of generate_frames appends, frame i at place i + 1
GeneratedFrames(img, n) ==
    [k \in 1..n |-> [w |-> NewWidth(img.w, k - 1, n), h |-> img.h,
                     flip |-> Back(k - 1, n)]]

\* mutant: the except clause leaves the frames appended before the failure
FramesAfterErrorKept(partial) == partial

\* the except clause of generate_frames, self.frames holding the frames
\* appended before the failure: "self.frames = []"
FramesAfterError(partial) == <<>>

\* the frame indices at which resize or transpose may raise: the first one
\* (the only one when the image is closed), the second and the last
FailingIndices(img, n) == IF img.closed THEN {0} ELSE {0, 1, n - 1}

\* generate_frames on image img for n frames: every frame is made, or resize
\* or transpose raises at the frame of some index k and the except clause
\* opens its message box, self.frames holding the frames appended so far
Generate(img, n) ==
    \/ /\ ~img.closed
       /\ frames' = GeneratedFrames(img, n)
       /\ UNCHANGED <<message, gui>>
    \/ /\ \E k \in FailingIndices(img, n) :
            frames' = SubSeq(GeneratedFrames(img, n), 1, k)
       /\ message' = MsgFailedGenerate
       /\ gui' = "failed_generate"

\* the message box of the except clause of generate_frames is closed:
\* "self.frames = []", and the handler that called generate_frames goes on
GenerateFailed ==
    /\ gui = "failed_generate"
    /\ gui' = "idle"
    /\ frames' = FramesAfterError(frames)
    /\ UNCHANGED <<image, spritesheet_path, frame_width, frame_height, prefix,
                   output_dir, message, worker_thread, split_btn, cleanups_due, jobs,
                   source_closed, total_frames, ms_per_frame, encoded, out_file>>
    /\ UNCHANGED workerVars

MaxCoinW == 6
CoinWidths == 1..MaxCoinW \cup {100}
CoinHeights == {1, 50}
CoinImages == {[w |-> a, h |-> b, closed |-> FALSE] : a \in CoinWidths, b \in CoinHeights}

\* load_image: the dialog gives a path or nothing; the image held is closed,
\* then Image.open(path).convert("RGBA") raises or gives the new image, from
\* which the frames are generated
LoadImage ==
    /\ gui = "idle"
    /\ \/ UNCHANGED <<image, frames, message, gui>>
       \/ /\ image' = Closed(image)
          /\ message' = MsgFailedLoad
          /\ UNCHANGED <<frames, gui>>
       \/ \E img \in CoinImages :
           /\ image' = img
           /\ Generate(img, total_frames)
    /\ UNCHANGED <<spritesheet_path, frame_width, frame_height, prefix, output_dir,
                   worker_thread, split_btn, cleanups_due, jobs, source_closed,
                   total_frames, ms_per_frame, encoded, out_file>>
    /\ UNCHANGED workerVars

\* mutant: the frames are not generated again for the new count
UpdateFrameCountOnly ==
    /\ gui = "idle"
    /\ \E value \in FrameCounts :
        /\ value # total_frames
        /\ total_frames' = value
        /\ UNCHANGED <<frames, message, gui>>
    /\ UNCHANGED <<image, spritesheet_path, frame_width, frame_height, prefix,
                   output_dir, worker_thread, split_btn, cleanups_due, jobs, source_closed,
                   ms_per_frame, encoded, out_file>>
    /\ UNCHANGED workerVars

\* update_frame_count(value), called when the slider moves to another value
UpdateFrameCount ==
    /\ gui = "idle"
    /\ \E value \in FrameCounts :
        /\ value # total_frames
        /\ total_frames' = value
        /\ IF image # NoImage THEN Generate(image, value)
                              ELSE UNCHANGED <<frames, message, gui>>
    /\ UNCHANGED <<image, spritesheet_path, frame_width, frame_height, prefix,
                   output_dir, worker_thread, split_btn, cleanups_due, jobs, source_closed,
                   ms_per_frame, encoded, out_file>>
    /\ UNCHANGED workerVars

InitCoin ==
    /\ NoWorker
    /\ faulty = NoFault
    /\ cpu_count = 1
    /\ tab = "coin"
    /\ TabInit("none")

NextCoin ==
    \/ LoadImage
    \/ UpdateFrameCount
    \/ GenerateFailed
    \/ Cleanup

SpecCoin == InitCoin /\ [][NextCoin]_vars

(***************************************************************************)
(* Notions used by the properties.                                         *)
(***************************************************************************)
Cells == 0..(total - 1)

\* cells that is_frame_empty judges empty
JudgedEmpty == {i \in Cells : ~CropRaises(i) /\ CellEmpty(i)}

\* cells whose crop or save raises
SaveFailed == {i \in Cells : CropRaises(i) \/ (~CellEmpty(i) /\ SaveRaises(i))}

FinishedEmitted == \E k \in 1..Len(signals) : signals[k].sig = "finished"

\* names of the files in the output directory
FileNums == {f[2] : f \in files}

(***************************************************************************)
(* C1. Once finished or error has been emitted, no further progress signal *)
(* is emitted, in the sequential and in the parallel path and whenever     *)
(* stop() is called.                                                       *)
(***************************************************************************)
C1_NoProgressAfterTerminal ==
    [][signals # <<>> => (progress_n' = progress_n /\ progress_last' = progress_last)]_vars

\* the cancellation was signalled after some progress, with a save of the pool
\* still in flight
C1_Witness == signals # <<>> /\ progress_n > 0 /\ running # {}

(***************************************************************************)
(* C2. A run emits at most one terminal signal, and a run that has ended   *)
(* has emitted exactly one: finished(count, outputDir) or error(message),  *)
(* never both, never one of them twice.                                    *)
(***************************************************************************)
C2_ExactlyOneTerminal ==
    /\ Len(signals) <= 1
    /\ pc = "done" => Len(signals) = 1
    /\ pc \in {"start", "mkdir", "seq_check", "seq_body", "par_build", "par_submit",
               "par_wait", "par_close", "finish"} => signals = <<>>

\* a job of the parallel path has ended with finished although stop() was called
C2_Witness ==
    /\ pc = "done"
    /\ max_workers > 0
    /\ should_stop
    /\ signals = <<Finished(count)>>

(***************************************************************************)
(* C3. The progress values of a job never decrease, each one is the        *)
(* integer percentage floor(100 * k / total) of the k cells examined so    *)
(* far, and the last one before finished is 100.                           *)
(***************************************************************************)
C3_ProgressIsExactPercent ==
    [][/\ progress_n' > progress_n =>
            /\ progress_last' >= progress_last
            /\ progress_last' = (100 * Processed') \div total
       /\ (~FinishedEmitted /\ FinishedEmitted') => progress_last = 100]_vars

(***************************************************************************)
(* C4. In a completed job the files written are numbered start, start + 1, *)
(* ... in row-major order of their cells: the number of a frame is start   *)
(* plus the number of frames written for the cells before it.              *)
(***************************************************************************)
C4_DenseRowMajorNumbering ==
    FinishedEmitted =>
        \A f \in files : f[2] = start + Cardinality({g \in files : g[1] < f[1]})

(***************************************************************************)
(* C5. A cell whose crop or save fails never aborts the batch: a run that  *)
(* was not cancelled and whose directory was created ends with finished,   *)
(* every cell examined, the failed cells not counted as saved.             *)
(***************************************************************************)
C5_CellFailureNeverAborts ==
    (pc = "done" /\ dir_created > 0 /\ ~should_stop) =>
        /\ signals = <<Finished(total - Cardinality(JudgedEmpty) - Cardinality(SaveFailed))>>
        /\ Processed = total

(***************************************************************************)
(* C6. If stop() is called when k of the n cells have been processed, with *)
(* 0 < k < n, the job ends with the error "Operation cancelled" and        *)
(* finished is never emitted. (Stated for the jobs in which no crop or     *)
(* save raises, where no exception can end the run first.)                 *)
(***************************************************************************)
C6_StopDuringCancels ==
    (stop_when = "during" /\ SaveFailed = {}) =>
        /\ ~FinishedEmitted
        /\ pc = "done" => signals = <<Error(MsgCancelled)>>

(***************************************************************************)
(* C7. A cancelled job is reported exactly once, by a notification that is *)
(* neither the one of completion nor the one of failures.                  *)
(***************************************************************************)
C7_CancelledIsDistinct ==
    /\ Cardinality({k \in 1..Len(signals) : signals[k].msg = MsgCancelled}) <= 1
    /\ \A k \in 1..Len(signals) :
          signals[k].msg = MsgCancelled =>
              /\ signals[k].sig # Finished(0).sig
              /\ signals[k].sig # Error(MsgException).sig

(***************************************************************************)
(* C8. The mode depends on the number of grid cells only: more than 100    *)
(* cells use the pool, of min(2 * cpu_count, 16) workers; 100 cells or     *)
(* fewer are processed one after the other in row-major order. 150 cells,  *)
(* of which 75 are empty, use the pool; 80 cells do not.                   *)
(***************************************************************************)
C8_ModeByTotalCells ==
    /\ pc \in {"seq_check", "seq_body", "finish"} => total <= 100 /\ max_workers = 0
    /\ pc \in {"par_build", "par_submit", "par_wait"} => total > 100
    /\ max_workers # 0 =>
          /\ total > 100
          /\ max_workers = IF 2 * cpu_count < 16 THEN 2 * cpu_count ELSE 16
    /\ (total = 150 /\ pc \notin {"start", "mkdir", "done"}) =>
          pc \in {"par_build", "par_submit", "par_wait"}
    /\ (total = 80 /\ pc \notin {"start", "mkdir", "done"}) =>
          pc \in {"seq_check", "seq_body", "finish"}
    /\ pc \in {"seq_check", "seq_body", "finish"} =>
          {f[1] : f \in files} = {i \in 0..(frame_num - 1) : ~CellEmpty(i)}

\* the pool of a 16-worker machine is created for 150 cells, 75 of them empty
C8_Witness ==
    /\ pc = "par_wait"
    /\ total = 150
    /\ Cardinality(Cells \ JudgedEmpty) = 75
    /\ max_workers = 16

(***************************************************************************)
(* C9. The count of finished is the number of grid cells, minus the cells  *)
(* judged empty, minus the cells whose crop or save failed, and it is the  *)
(* number of files the job wrote.                                          *)
(***************************************************************************)
C9_CountIsSavedCells ==
    \A k \in 1..Len(signals) :
        signals[k].sig = "finished" =>
            /\ signals[k].count =
                   total - Cardinality(JudgedEmpty) - Cardinality(SaveFailed)
            /\ signals[k].count = Cardinality(FileNums)

\* a job has completed with one cell skipped as empty and one failed save
C9_Witness ==
    /\ FinishedEmitted
    /\ JudgedEmpty # {}
    /\ SaveFailed # {}
    /\ signals[1].count = total - 2

(***************************************************************************)
(* C10. With a frame larger than the sheet (cols x rows = 0) run() emits   *)
(* the error "Frame dimensions are larger than spritesheet size" and       *)
(* nothing else: no progress, no finished, no directory, no file.          *)
(***************************************************************************)
C10_TooLargeExtractsNothing ==
    total = 0 =>
        /\ pc \in {"start", "done"}
        /\ pc = "done" => signals = <<Error(MsgTooLarge)>>
        /\ pc = "start" => signals = <<>>
        /\ progress_n = 0
        /\ dir_created = 0
        /\ files = {}

\* the run of a job whose frame is wider than the sheet has ended
C10_Witness == total = 0 /\ frame_w > spritesheet.w /\ pc = "done"

(***************************************************************************)
(* C11. A job that start_split or run() rejects for its parameters (no     *)
(* spritesheet, non-positive frame dimensions, frame larger than the       *)
(* source, empty prefix, output path not writable) leaves nothing behind:  *)
(* no output directory was created, no worker thread was started, no file  *)
(* was written.                                                            *)
(***************************************************************************)
InvalidParameters ==
    \/ message \in {MsgSelect, MsgPositive, MsgNoParent, MsgCannotCreate,
                    MsgNotWritable, MsgPrefix}
    \/ \E k \in 1..Len(signals) : signals[k] = Error(MsgTooLarge)

C11_RejectedJobLeavesNothing ==
    InvalidParameters =>
        /\ output_dir # "created"
        /\ worker_thread = "none"
        /\ files = {}

(***************************************************************************)
(* C13. For every source of W >= 1 by H >= 1 pixels the inferred frame     *)
(* size satisfies 1 <= frameW <= W and 1 <= frameH <= H, and a 256 x 256   *)
(* source gives (256, 256).                                                *)
(***************************************************************************)
C13_InferredSizeWithinSource ==
    image # NoImage =>
        /\ 1 <= frame_width /\ frame_width <= image.w
        /\ 1 <= frame_height /\ frame_height <= image.h
        /\ image.w = 256 /\ image.h = 256 => frame_width = 256 /\ frame_height = 256

\* a source smaller than every common size was loaded, and a 256 x 256 one
C13_Witness ==
    \/ image.w = 256 /\ image.h = 256 /\ frame_width = 256
    \/ image.w = 5 /\ image.h = 3 /\ frame_width = 5 /\ frame_height = 3

(***************************************************************************)
(* C14. Whenever a common size divides both W and H, the inferred frame    *)
(* is the square (S, S) of the largest such size S.                        *)
(***************************************************************************)
CommonDivisors(width, height) ==
    {common_sizes[i] : i \in {k \in 1..Len(common_sizes) :
        width % common_sizes[k] = 0 /\ height % common_sizes[k] = 0}}

C14_LargestCommonSquare ==
    image # NoImage /\ CommonDivisors(image.w, image.h) # {} =>
        \A S \in CommonDivisors(image.w, image.h) :
            (\A T \in CommonDivisors(image.w, image.h) : T <= S) =>
                frame_width = S /\ frame_height = S

(***************************************************************************)
(* C12. A grid extraction that runs to its end emits exactly the cells of  *)
(* the cols = W div fw by rows = H div fh grid that are not judged empty,   *)
(* in row-major order: every emitted rectangle is a grid cell inside the   *)
(* source, at most cols x rows frames are emitted, and a cell with no      *)
(* non-transparent pixel is never emitted.                                 *)
(***************************************************************************)
GridCols == image.w \div frame_width
GridRows == image.h \div frame_height

C12_Emitted(fs) ==
    /\ \A k \in 1..Len(fs) :
        /\ fs[k].cell \in 0..(GridCols * GridRows - 1)
        /\ fs[k].box.left = (fs[k].cell % GridCols) * frame_width
        /\ fs[k].box.top = (fs[k].cell \div GridCols) * frame_height
        /\ fs[k].box.right = fs[k].box.left + frame_width
        /\ fs[k].box.bottom = fs[k].box.top + frame_height
        /\ fs[k].box.left >= 0 /\ fs[k].box.right <= image.w
        /\ fs[k].box.top >= 0 /\ fs[k].box.bottom <= image.h
        /\ \E x \in fs[k].box.left..(fs[k].box.right - 1),
              y \in fs[k].box.top..(fs[k].box.bottom - 1) : <<x, y>> \notin image.blank
    /\ \A k \in 1..(Len(fs) - 1) : fs[k].cell < fs[k + 1].cell
    /\ {fs[k].cell : k \in 1..Len(fs)} =
           {i \in 0..(GridCols * GridRows - 1) :
               ~TabIsFrameEmpty(image, [left |-> (i % GridCols) * frame_width,
                                        top |-> (i \div GridCols) * frame_height,
                                        right |-> (i % GridCols) * frame_width + frame_width,
                                        bottom |-> (i \div GridCols) * frame_height + frame_height])}
    /\ Len(fs) <= (image.w \div frame_width) * (image.h \div frame_height)

C12_GridExtraction ==
    [][ExtractFrames /\ message' \in {MsgExtracted, MsgNoValid} => C12_Emitted(frames')]_vars

\* an extraction has skipped an empty cell and dropped the remainder column
C12_Witness ==
    /\ message = MsgExtracted
    /\ image.w % frame_width # 0
    /\ Len(frames) > 0
    /\ Len(frames) < GridCols * GridRows

(***************************************************************************)
(* C16. GIF export pastes every frame on a canvas of (maxWidth, maxHeight) *)
(* over all the frames, at ((maxWidth - w) div 2, (maxHeight - h) div 2):  *)
(* both offsets are >= 0 and the frame lies inside the canvas. Frames of   *)
(* 100 x 100, 80 x 100 and 100 x 80 get a canvas of 100 x 100.             *)
(***************************************************************************)
C16_FramesCentredOnMaxCanvas ==
    encoded.called /\ encoded.format = "GIF" =>
        /\ encoded.n = Len(frames)
        /\ \A k \in 1..encoded.n :
            /\ encoded.sizes[k] = <<frames[k].w, frames[k].h>>
            /\ encoded.sizes[k][1] <= encoded.canvas[1]
            /\ encoded.sizes[k][2] <= encoded.canvas[2]
            /\ 2 * encoded.offsets[k][1] \in
                   {encoded.canvas[1] - encoded.sizes[k][1],
                    encoded.canvas[1] - encoded.sizes[k][1] - 1}
            /\ 2 * encoded.offsets[k][2] \in
                   {encoded.canvas[2] - encoded.sizes[k][2],
                    encoded.canvas[2] - encoded.sizes[k][2] - 1}
            /\ encoded.offsets[k][1] >= 0 /\ encoded.offsets[k][2] >= 0
            /\ encoded.offsets[k][1] + encoded.sizes[k][1] <= encoded.canvas[1]
            /\ encoded.offsets[k][2] + encoded.sizes[k][2] <= encoded.canvas[2]
        /\ \E k \in 1..encoded.n : encoded.sizes[k][1] = encoded.canvas[1]
        /\ \E k \in 1..encoded.n : encoded.sizes[k][2] = encoded.canvas[2]
        /\ {encoded.sizes[k] : k \in 1..encoded.n} = ExampleSizes =>
               encoded.canvas = <<100, 100>>

\* frames of 80 x 100, 100 x 80 and 100 x 100 were exported, in this order,
\* or a frame of 95 x 95 after one of 100 x 100 (an odd margin)
C16_Witness ==
    /\ encoded.called
    /\ \/ /\ encoded.sizes = <<(<<80, 100>>), (<<100, 80>>), (<<100, 100>>)>>
          /\ encoded.offsets = <<(<<10, 0>>), (<<0, 10>>), (<<0, 0>>)>>
       \/ /\ encoded.sizes = <<(<<100, 100>>), (<<95, 95>>)>>
          /\ encoded.offsets = <<(<<0, 0>>), (<<2, 2>>)>>

(***************************************************************************)
(* C17. The duration passed to the GIF encoder is an integer >= 1 equal to *)
(* the requested time per frame exactly, one value for every frame,        *)
(* written with loop count 0 and disposal 2; 50 ms yields 50.              *)
(***************************************************************************)
\* an export_gif step that called save, with the request of that moment
GifSaved == ExportGif /\ encoded'.called

\* the claim as stated: the duration is the request itself
C17_DurationIsRequest ==
    [][GifSaved =>
        /\ encoded'.duration >= 1
        /\ encoded'.duration * ms_per_frame.den = ms_per_frame.num
        /\ encoded'.loop = 0 /\ encoded'.disposal = 2]_vars

\* As amended: the duration is the request rounded to the nearest integer, a
\* tie to the even one, hence the request itself when that is a whole number
\* of milliseconds.
C17_DurationIsRoundedRequest ==
    [][GifSaved =>
        /\ encoded'.duration >= 1
        /\ 2 * encoded'.duration * ms_per_frame.den <= 2 * ms_per_frame.num + ms_per_frame.den
        /\ 2 * encoded'.duration * ms_per_frame.den >= 2 * ms_per_frame.num - ms_per_frame.den
        /\ ((2 * ms_per_frame.num) % ms_per_frame.den = 0
               /\ ms_per_frame.num % ms_per_frame.den # 0)
               => (encoded'.duration % 2 = 0)
        /\ (ms_per_frame.num % ms_per_frame.den = 0)
               => (encoded'.duration * ms_per_frame.den = ms_per_frame.num)
        /\ (ms_per_frame \in {[num |-> 5000, den |-> 100], [num |-> 1000, den |-> 20]})
               => (encoded'.duration = 50)
        /\ encoded'.loop = 0 /\ encoded'.disposal = 2]_vars

\* exports at 50 ms (50), at 16 FPS (62.5 ms: 62) and at 16.67 ms (17)
C17_Witness ==
    /\ encoded.called
    /\ message = MsgExported
    /\ \/ encoded.duration = 50 /\ ms_per_frame = [num |-> 5000, den |-> 100]
       \/ encoded.duration = 62 /\ ms_per_frame = [num |-> 1000, den |-> 16]
       \/ encoded.duration = 17 /\ ms_per_frame = [num |-> 1667, den |-> 100]

(***************************************************************************)
(* C19. A failed export (no frames, or a failure while composing or        *)
(* serializing) leaves no partial file at the chosen path.                 *)
(***************************************************************************)
C19_FailedExportLeavesNoFile ==
    message \in {MsgNoFrames, MsgFailedGif} => out_file # "partial"


(***************************************************************************)
(* C18. A sheet of n >= 1 frames has cols = ceil(sqrt(n)) columns and      *)
(* rows = ceil(n / cols) rows, so cols x rows >= n; frame i is pasted in   *)
(* the cell of row i div cols and column i mod cols, no two frames in one  *)
(* cell, each frame inside its own maxW x maxH cell, and the sheet is      *)
(* (cols x maxW) by (rows x maxH); 5 frames give 3 columns and 2 rows.     *)
(***************************************************************************)
\* the cell <<row, column>> that holds a point of the sheet
C18_CellAt(pos) == <<pos[2] \div encoded.cell[2], pos[1] \div encoded.cell[1]>>

C18_SheetPacking ==
    encoded.called /\ encoded.format = "PNG" =>
        /\ encoded.n = Len(frames) /\ encoded.n >= 1
        /\ encoded.cols * encoded.cols >= encoded.n
        /\ (encoded.cols - 1) * (encoded.cols - 1) < encoded.n
        /\ encoded.rows * encoded.cols >= encoded.n
        /\ (encoded.rows - 1) * encoded.cols < encoded.n
        /\ \A k \in 1..encoded.n : encoded.cell[1] >= frames[k].w
                                   /\ encoded.cell[2] >= frames[k].h
        /\ \E k \in 1..encoded.n : encoded.cell[1] = frames[k].w
        /\ \E k \in 1..encoded.n : encoded.cell[2] = frames[k].h
        /\ \A k \in 1..encoded.n :
            LET first == encoded.positions[k]
                last == <<first[1] + frames[k].w - 1, first[2] + frames[k].h - 1>>
                home == <<(k - 1) \div encoded.cols, (k - 1) % encoded.cols>>
            IN  /\ C18_CellAt(first) = home
                /\ C18_CellAt(last) = home
                /\ home[1] < encoded.rows
                /\ last[1] < encoded.size[1] /\ last[2] < encoded.size[2]
        /\ \A j, k \in 1..encoded.n :
            j # k => C18_CellAt(encoded.positions[j]) # C18_CellAt(encoded.positions[k])
        /\ encoded.size = <<encoded.cols * encoded.cell[1], encoded.rows * encoded.cell[2]>>
        /\ encoded.n = 5 => encoded.cols = 3 /\ encoded.rows = 2

\* five frames were packed, the last one, narrower than the cell, in the
\* second column of the second row
C18_Witness ==
    /\ encoded.called /\ encoded.format = "PNG"
    /\ encoded.n = 5
    /\ encoded.cell = <<100, 100>>
    /\ encoded.sizes[5] = <<80, 100>>
    /\ encoded.positions[5] = <<110, 100>>
    /\ encoded.size = <<300, 200>>
    /\ out_file = "complete"


(***************************************************************************)
(* C15. For every frame count N from 20 to 180 and a loadable source       *)
(* image, generate_frames makes exactly N frames in index order, and       *)
(* frame 0 has the full width and the height of the source.                *)
(***************************************************************************)
\* a step of load_image or update_frame_count after which an open image and
\* the frames generated from it are held (a call that raises leaves none)
C15_Generated ==
    /\ \/ LoadImage /\ image' # NoImage /\ ~image'.closed
       \/ UpdateFrameCount /\ image # NoImage /\ ~image.closed
    /\ gui' = "idle"
    /\ frames' # <<>>

\* Frames in the order of the indices: mirrored between 90 and 270 degrees
\* and nowhere outside 90..270 degrees, of the source's height, no wider
\* than the source, and never wider than the one before during the first
\* quarter of the turn.
C15_InOrder(fs) ==
    \A k \in 1..Len(fs) :
        /\ (Len(fs) < 4 * (k - 1) /\ 4 * (k - 1) < 3 * Len(fs)) => fs[k].flip
        /\ fs[k].flip => (Len(fs) <= 4 * (k - 1) /\ 4 * (k - 1) <= 3 * Len(fs))
        /\ fs[k].h = image'.h
        /\ fs[k].w >= 1 /\ fs[k].w <= image'.w
        /\ (k > 1 /\ 4 * (k - 1) <= Len(fs)) => fs[k - 1].w >= fs[k].w

C15_ExactlyNFramesFirstFull ==
    [][C15_Generated =>
        /\ total_frames' \in MinFrames..MaxFrames
        /\ Len(frames') = total_frames'
        /\ C15_InOrder(frames')
        /\ frames'[1].w = image'.w /\ frames'[1].h = image'.h
        /\ ~frames'[1].flip]_vars

\* 180 frames of an image 100 wide: the first of the full width, the 46th
\* (a quarter turn) 1 wide, the 91st (half a turn) of the full width again
\* and mirrored
C15_Witness ==
    /\ image # NoImage /\ ~image.closed /\ image.w = 100 /\ image.h = 50
    /\ total_frames = 180
    /\ Len(frames) = 180
    /\ frames[1] = [w |-> 100, h |-> 50, flip |-> FALSE]
    /\ frames[46].w = 1
    /\ frames[91] = [w |-> 100, h |-> 50, flip |-> TRUE]


(***************************************************************************)
(* C20. Extraction run again with the same job parameters on an unchanged  *)
(* source, without cancellation, gives the same set of output files, the   *)
(* same file name for each cell and the same final count, whatever the     *)
(* interleaving of the pool's tasks: what a run that was not cancelled     *)
(* leaves is a function of the job alone.                                  *)
(***************************************************************************)
\* the first cell at which the sequential loop raises (total: none)
C20_FirstFailure ==
    IF SaveFailed = {} THEN total
    ELSE CHOOSE i \in SaveFailed : \A j \in SaveFailed : i <= j

\* the files of the job: <<cell, number>>
C20_FilesOfJob ==
    IF UseParallel(total)
    THEN {<<i, start + i>> : i \in {k \in Cells : TaskResult(k)}}
    ELSE {<<i, start + Cardinality({j \in 0..(i - 1) : ~CellEmpty(j)})>> :
             i \in {k \in Cells : k < C20_FirstFailure /\ ~CellEmpty(k)}}

\* the terminal signal of the job
C20_SignalOfJob ==
    IF total = 0 THEN Error(MsgTooLarge)
    ELSE IF ~UseParallel(total) /\ C20_FirstFailure < total THEN Error(MsgException)
    ELSE Finished(Cardinality(C20_FilesOfJob))

C20_RerunGivesSameFiles ==
    (pc = "done" /\ ~should_stop /\ stop_when = "never"
        /\ (total > 0 => dir_created = 1)) =>
        /\ files = C20_FilesOfJob
        /\ signals = <<C20_SignalOfJob>>

\* a job of the pool has ended without cancellation: two tasks were in
\* flight at once, one cell was skipped and the others were written
C20_Witness ==
    /\ pc = "done" /\ ~should_stop
    /\ max_workers >= 2
    /\ completed = total
    /\ signals = <<Finished(saved)>>
    /\ saved < total /\ saved > 1
    /\ files = C20_FilesOfJob


(***************************************************************************)
(* C21. Once the stop flag is set the queued work is abandoned: the        *)
(* sequential loop crops and saves no further cell, a pool task that       *)
(* begins after the flag is set writes no file, only the saves in flight   *)
(* when the flag was set may still complete, and the run reports the       *)
(* cancellation instead of the completion.                                 *)
(***************************************************************************)
\* the cells past their stop check whose crop and save are still to come
C21_InFlight ==
    IF UseParallel(total) THEN running
    ELSE IF pc = "seq_body" THEN {frame_num} ELSE {}

\* the part that holds: with the flag set no cell gets in flight, and a file
\* is written only for a cell in flight
C21_NoNewWorkAfterStop ==
    [][should_stop =>
        /\ C21_InFlight' \subseteq C21_InFlight
        /\ \A f \in files' \ files : f[1] \in C21_InFlight]_vars

\* the claim: that, and the signal emitted with the flag set is the
\* cancellation
C21_StopAbandonsQueuedWork ==
    [][should_stop =>
        /\ C21_InFlight' \subseteq C21_InFlight
        /\ \A f \in files' \ files : f[1] \in C21_InFlight
        /\ signals' # signals => signals'[Len(signals')] = Error(MsgCancelled)]_vars


(***************************************************************************)
(* C22. From the start of an extraction job until its terminal signal the  *)
(* source image it reads stays open: no operation of the splitter tab      *)
(* (browse_spritesheet, clear_cache, cleanup) closes or replaces the image *)
(* while the job holds it.                                                 *)
(***************************************************************************)
C22_SourceStaysOpen ==
    (pc # "none" /\ signals = <<>>) => ~source_closed


(***************************************************************************)
(* C30. In the splitter tab at most one extraction job exists at a time:   *)
(* start_split disables the split button before the thread starts, only    *)
(* split_finished or split_error of that job enables it again, and the     *)
(* cleanup_worker called when a job's thread has finished releases the     *)
(* worker and the thread of that job only, never those of a later job.     *)
(***************************************************************************)
C30_OneJobAtATime ==
    [][/\ (pc # "start" /\ pc' = "start") => (split_btn /\ ~split_btn')
       /\ (~split_btn /\ split_btn') => (SplitDone /\ signals # <<>>)
       /\ (CleanupWorker /\ worker_thread = "started") => cleanups_due = 1]_vars


(***************************************************************************)
(* C23. run() creates the output directory exactly once per job, before    *)
(* any cell is cropped and before any pool task is submitted; no pool task *)
(* creates a directory; if the creation fails the job ends with an error,  *)
(* no progress signal and no file written.                                 *)
(***************************************************************************)
\* run() is past the creation of the directory: in one of the loops, in the
\* pool, or at its end after them
C23_PastMkdir ==
    \/ pc \in {"seq_check", "seq_body", "par_build", "par_submit", "par_wait",
               "par_close", "par_join", "finish"}
    \/ frame_num > 0 \/ built > 0 \/ max_workers > 0 \/ next_task > 0
    \/ taken # {} \/ running # {} \/ files # {} \/ progress_n > 0
    \/ FinishedEmitted

C23_DirectoryCreatedOnceFirst ==
    /\ [](/\ dir_created <= 1
          /\ C23_PastMkdir => dir_created = 1
          /\ (\E k \in 1..Len(signals) : signals[k] = Error(MsgMkdir)) =>
                /\ pc = "done" /\ signals = <<Error(MsgMkdir)>>
                /\ dir_created = 0 /\ progress_n = 0 /\ files = {})
    /\ [][/\ dir_created' # dir_created => (pc = "mkdir" /\ dir_created' = 1)
          /\ (pc = "mkdir" /\ pc' # "mkdir" /\ dir_created' = dir_created) =>
                (pc' = "done" /\ signals' = <<Error(MsgMkdir)>>)]_vars

\* the pool saves frames into the directory created once
C23_Witness ==
    /\ dir_created = 1
    /\ max_workers > 0
    /\ Cardinality(running) = 2
    /\ files # {}


\* the box of the i-th cell of the grid of the sheet loaded
C24_Box(i) ==
    [left |-> (i % GridCols) * frame_width,
     top |-> (i \div GridCols) * frame_height,
     right |-> (i % GridCols) * frame_width + frame_width,
     bottom |-> (i \div GridCols) * frame_height + frame_height]

C24_Alphas(i) ==
    LET box == C24_Box(i) IN
    {<<x, y, Alpha(image, x, y)>> :
        x \in box.left..(box.right - 1), y \in box.top..(box.bottom - 1)}

C24_Count(i) == Cardinality({p \in C24_Alphas(i) : p[3] > 10})

C24_Rule(i) ==
    \/ \A p \in C24_Alphas(i) : p[3] = 0
    \/ C24_Count(i) = 0
    \/ C24_Count(i) * 100 < frame_width * frame_height

\* C24: is_frame_empty is true exactly when the maximum alpha of the cell is
\* 0, or no pixel has alpha > 10, or the pixels with alpha > 10 are fewer than
\* 1% of the cell (count x 100 < width x height); the copy of SplitterWorker
\* and the copy of SheetToGifTab agree on every cell. Checked on every cell
\* of every extraction: the cells kept are those the rule calls non-empty.
C24_EmptyRule ==
    [][ExtractFrames /\ message' \in {MsgExtracted, MsgNoValid} =>
        /\ {frames'[k].cell : k \in 1..Len(frames')} =
               {i \in 0..(GridCols * GridRows - 1) : ~C24_Rule(i)}
        /\ \A i \in 0..(GridCols * GridRows - 1) :
               /\ TabIsFrameEmpty(image, C24_Box(i)) = C24_Rule(i)
               /\ IsFrameEmpty(image, C24_Box(i)) = C24_Rule(i)]_vars

\* an extraction has skipped a cell of 288 pixels that holds two pixels above
\* the cut, one of them of alpha 11, and a pixel of alpha 10
C24_Witness ==
    /\ message = MsgNoValid
    /\ image # NoImage
    /\ frame_width * frame_height = 288
    /\ C24_Count(0) = 2
    /\ \E p \in C24_Alphas(0) : p[3] = 11
    /\ \E p \in C24_Alphas(0) : p[3] = 10

\* the largest common size dividing n, 32 if none does
C25_Largest(n) ==
    LET dividing == {common_sizes[i] : i \in 1..Len(common_sizes)} \cap
                        {d \in 1..n : n % d = 0}
    IN IF dividing = {} THEN 32
       ELSE CHOOSE d \in dividing : \A e \in dividing : e <= d

C25_Min(a, b) == IF a < b THEN a ELSE b

C25_NoCommonSquare(W, H) ==
    \A i \in 1..Len(common_sizes) : W % common_sizes[i] # 0 \/ H % common_sizes[i] # 0

\* C25: when no common size divides both W and H, the width and the height
\* are picked independently: frameW is the largest common size dividing W (32
\* if none), frameH the largest common size dividing H (32 if none) whether or
\* not a width divisor was found, each clamped to the side of the image.
C25_IndependentSides ==
    [][LoadSized /\ C25_NoCommonSquare(image'.w, image'.h) =>
        /\ frame_width' = C25_Min(C25_Largest(image'.w), image'.w)
        /\ frame_height' = C25_Min(C25_Largest(image'.h), image'.h)]_vars

\* the same, for the sheets of which some common size divides the width
C25_IndependentSidesGivenWidthDivisor ==
    [][LoadSized /\ C25_NoCommonSquare(image'.w, image'.h)
                 /\ FirstDividing(image'.w, 1) # 0 =>
        /\ frame_width' = C25_Min(C25_Largest(image'.w), image'.w)
        /\ frame_height' = C25_Min(C25_Largest(image'.h), image'.h)]_vars

\* the call of generate_frames that failed returns: its message box is closed
\* and the except clause ends
C26_FailedCallReturns == gui = "failed_generate" /\ gui' = "idle"

\* C26: when resize or transpose fails at any frame index, generate_frames
\* reports the error and leaves an empty sequence: neither a prefix of the
\* frames made before the failure nor a frame of the previous sequence stays.
\* The error is reported in the step of the failure, and the sequence is
\* empty when the call returns.
C26_FailureLeavesNoFrames ==
    [][/\ gui' = "failed_generate" /\ gui = "idle" => message' = MsgFailedGenerate
       /\ C26_FailedCallReturns => frames' = <<>>]_vars

\* generation has failed on an open image that had been animated before (the
\* frame count is no longer the one of the constructor), and the call has
\* returned
C26_Witness ==
    /\ image # NoImage /\ ~image.closed
    /\ message = MsgFailedGenerate
    /\ gui = "idle"
    /\ frames = <<>>
    /\ total_frames # DefaultTotalFrames

\* C27: with an image loaded and no synthesis error, the frames are those
\* generated in full for the latest image and frame count: len(frames) is
\* total_frames and no frame made for an earlier count survives. Outside a
\* failing call of generate_frames the sequence differs from GeneratedFrames
\* of the latest parameters only by being empty, and it becomes empty only in
\* a step in which a synthesis error is reported (or when the window closes).
C27_RebuiltInFull ==
    /\ [](image # NoImage /\ frames # <<>> /\ gui # "failed_generate" =>
             /\ Len(frames) = total_frames
             /\ frames = GeneratedFrames(image, total_frames))
    /\ [][image' # NoImage /\ frames' = <<>> /\ (frames # <<>> \/ image = NoImage)
             => message' = MsgFailedGenerate \/ gui' = "closed"]_vars

\* an image 100 wide shows 20 frames after the slider was moved from 60 to 20
C27_Witness ==
    /\ image # NoImage /\ ~image.closed /\ image.w = 100
    /\ total_frames = 20
    /\ Len(frames) = 20
    /\ frames[6].w = 1
    /\ message = ""

\* C28: without save failure and without cancellation the sequential path
\* and the parallel path give the same notifications for a grid and its
\* empty cells: the k-th progress signal carries int((k / total) * 100), for
\* k = 1..total, and finished follows with the number of non-empty cells
\* (once the directory exists: a failure of mkdir ends both in the same error).
\* Both paths are held to the same function of the grid.
C28_SameNotifications ==
    /\ [](signals # <<>> /\ dir_created = 1 =>
             /\ signals = <<Finished(Cardinality({i \in Cells : ~CellEmpty(i)}))>>
             /\ progress_n = total)
    /\ [][/\ progress_n' # progress_n =>
                /\ signals = <<>>
                /\ progress_n' = progress_n + 1
                /\ progress_n' <= total
                /\ progress_last' = ProgressPct(progress_n', total)]_vars

\* the pool has processed 102 cells of which one is empty: 102 progress
\* signals, then finished(101)
C28_Witness ==
    /\ pc = "done"
    /\ max_workers > 0
    /\ total = 102
    /\ progress_n = 102
    /\ progress_last = 100
    /\ signals = <<Finished(101)>>

\* C29: within one job no two frames are written under the same filename, in
\* either mode, for every start index and every padding width (zfill never
\* truncates an index): when run() has returned, the frames written for two
\* different cells have different filenames.
C29_NoOverwrite ==
    pc = "done" =>
        \A f, g \in files : f[1] < g[1] =>
            \A pad \in Pads :
                Filename(prefix, f[2], pad) # Filename(prefix, g[2], pad)

\* the pool has written frames 3 and 102: with a padding of 1 or 2 the second
\* index is longer than the padding
C29_Witness ==
    /\ pc = "done"
    /\ max_workers > 0
    /\ <<2, 3>> \in files
    /\ <<101, 102>> \in files
====
